---- MODULE Spec2Model ----
(***************************************************************************)
(* Model of the update orchestration of dolphin-slippi-tools               *)
(* (src/app-update.go): execAppUpdate with its two branches (self-update   *)
(* hop and install), waitForDolphinClose, extractFiles with its per-file   *)
(* write-retry loop, the manifest selectors, deletePrevious and            *)
(* applyMeleeOnlyChanges.                                                  *)
(*                                                                         *)
(* Spec follows whole runs of the updater in every mode, HopSpec the       *)
(* chains through the self-update hop with an isoPath, FairSpec one such   *)
(* chain under fairness of the processes.  SelSpec, VcrSpec, RelSpec,      *)
(* WatchSpec, ExtSpec and MigSpec follow one function each on inputs of    *)
(* its own: the manifest selectors, installVcr, the release query,         *)
(* waitForDolphinClose (with processes that are started while it polls and *)
(* a TASKLIST that fails, which the runs of Spec leave out; WatchFairSpec  *)
(* adds the fairness of its loop), extractFiles over drawn archives and    *)
(* applyMeleeOnlyChanges over drawn settings directories.  ChainSpec       *)
(* follows the release queries of the two processes of a self-update chain *)
(* while the service publishes releases.                                   *)
(*                                                                         *)
(* The program is Windows-only (registry, TASKLIST, w32), so path/filepath *)
(* and the file system follow their Windows behaviour: both "/" and "\"    *)
(* separate path components, "*" of filepath.Match stops only at "\", and  *)
(* the file a live process was started from can be renamed but not         *)
(* removed.                                                                *)
(*                                                                         *)
(* A path string is a sequence of tokens: component names and the two      *)
(* separator tokens.  A file of the install directory is named by the      *)
(* sequence of its components below the updater's own directory (exPath).  *)
(***************************************************************************)
EXTENDS Integers, Sequences, FiniteSets, TLC

(***************************************************************************)
(* Bounds of the model.                                                    *)
(***************************************************************************)
\* number of bytes of every archive entry and installed file
EntryLen == 2
\* number of target files on which attempts to write fail during one update
MaxFaultyFiles == 1

(***************************************************************************)
(* Program constants.                                                      *)
(***************************************************************************)
\* seconds of the per-file write-retry window, time.Second * 20
RetryWindow == 20
\* seconds slept after a failed attempt, time.Sleep(time.Second)
RetrySleep == 1

(***************************************************************************)
(* path/filepath on Windows.                                               *)
(***************************************************************************)
Slash == "/"
BackSlash == "\\"
Separators == {Slash, BackSlash}

\* the empty string ""
Empty == << >>

\* filepath.ToSlash: every "\" becomes "/"
ToSlash(path) == [i \in DOMAIN path |-> IF path[i] = BackSlash THEN Slash ELSE path[i]]

IsComponent(tok) == tok \notin Separators

\* the components of a path, in order (what filepath.Clean keeps of it)
Components(path) == SelectSeq(path, IsComponent)

\* the components joined by one separator token
JoinWith(comps, sep) ==
    IF Len(comps) = 0 THEN Empty
    ELSE [i \in 1..(2 * Len(comps) - 1) |->
            IF i % 2 = 1 THEN comps[(i + 1) \div 2] ELSE sep]

\* filepath.Base: the last component
Base(path) ==
    LET c == Components(path)
    IN  IF Len(c) = 0 THEN "." ELSE c[Len(c)]

\* filepath.Dir: all but the last component, cleaned; "." when nothing is left
Dir(path) ==
    LET c == Components(path)
    IN  IF Len(c) <= 1 THEN <<".">> ELSE JoinWith(SubSeq(c, 1, Len(c) - 1), BackSlash)

DropDot(comps) == SelectSeq(comps, LAMBDA t : t # ".")

\* filepath.Join: the non-empty elements joined and cleaned
Join(a, b) == JoinWith(DropDot(Components(a) \o Components(b)), BackSlash)

IsPrefix(s, t) == Len(s) <= Len(t) /\ SubSeq(t, 1, Len(s)) = s

\* a directory name that holds a character class, and the one name that it
\* matches when it is read as a pattern
ClassName == "FM[1]"
ClassMatch == "FM1"

\* filepath.Match, one literal piece of the pattern against one piece of the
\* name: a piece without a class matches itself, "[1]" matches the character 1
MatchPiece(ptok, ntok) ==
    IF ptok = ClassName THEN ntok = ClassMatch ELSE ntok = ptok

\* filepath.Match for a pattern that ends in "*": the part before it must
\* match the beginning of the name piece by piece and "*" matches any run of
\* characters other than "\"
MatchStar(pattern, name) ==
    LET lit == SubSeq(pattern, 1, Len(pattern) - 1)
    IN  /\ Len(lit) <= Len(name)
        /\ \A i \in 1..Len(lit) : MatchPiece(lit[i], name[i])
        /\ \A i \in (Len(lit) + 1)..Len(name) : name[i] # BackSlash

\* the number of leading components that two paths share
RECURSIVE CommonLen(_, _, _)
CommonLen(b, n, i) ==
    IF i < Len(b) /\ i < Len(n) /\ b[i + 1] = n[i + 1]
    THEN CommonLen(b, n, i + 1)
    ELSE i

\* filepath.Rel(base, name): ".." for every component of base that name does
\* not share, then the rest of name; "." when the two are the same directory
Rel(base, name) ==
    LET b == DropDot(Components(base))
        n == DropDot(Components(name))
        k == CommonLen(b, n, 0)
        up == [i \in 1..(Len(b) - k) |-> ".."]
        r == up \o SubSeq(n, k + 1, Len(n))
    IN  IF Len(r) = 0 THEN <<".">> ELSE JoinWith(r, BackSlash)

(***************************************************************************)
(* File names of the install directory.                                    *)
(***************************************************************************)
DolphinExe == "Dolphin.exe"
SlippiDolphinExe == "Slippi Dolphin.exe"
AppExeNames == {DolphinExe, SlippiDolphinExe}
SlippiToolsExe == "dolphin-slippi-tools.exe"
OldSlippiToolsExe == "old-dolphin-slippi-tools.exe"

\* slippiToolsPath and oldSlippiToolsPath, below exPath
slippiToolsPath == <<SlippiToolsExe>>
oldSlippiToolsPath == <<OldSlippiToolsExe>>

(***************************************************************************)
(* Manifest selectors.                                                     *)
(***************************************************************************)
\* a full selector that admits every path
fullUpdateGenAll(path) == path

\* fullUpdateGen without the check of the updater binary
fullUpdateGenNoTools(path) ==
    LET slashPath == ToSlash(path)
    IN  IF slashPath = <<DolphinExe>> \/ slashPath = <<SlippiDolphinExe>> THEN Empty
        ELSE path

fullUpdateGen(path) ==
    LET slashPath == ToSlash(path)
    IN  IF slashPath = <<DolphinExe>> \/ slashPath = <<SlippiDolphinExe>> THEN Empty
        ELSE IF slashPath = <<SlippiToolsExe>> THEN Empty
        ELSE path

updaterUpdateGen(path) ==
    IF path = <<SlippiToolsExe>> THEN path ELSE Empty

\* an executable selector that knows the former name of the application only
exeUpdateGenDolphinOnly(path) ==
    LET slashPath == ToSlash(path)
    IN  IF slashPath = <<DolphinExe>> THEN path
        ELSE Empty

exeUpdateGen(path) ==
    LET slashPath == ToSlash(path)
    IN  IF slashPath = <<DolphinExe>> \/ slashPath = <<SlippiDolphinExe>> THEN path
        ELSE Empty

\* the files partialUpdateGen names one by one, as slash paths
PartialNamedFiles ==
    { <<"FIX-VCRUNTIME140-ERROR.txt">>,
      <<"Sys", Slash, "GameSettings", Slash, "GALE01r2.ini">>,
      <<"Sys", Slash, "GameSettings", Slash, "GALJ01r2.ini">>,
      <<"User", Slash, "GameSettings", Slash, "GALE01.ini">>,
      <<"User", Slash, "GameSettings", Slash, "GALJ01r2.ini">> }

gameFilesPattern == <<"Sys", Slash, "GameFiles", Slash, "GALE01", Slash, "*">>

\* the partial selector of the revision before it, which admitted Dolphin.exe
partialUpdateGenWithExe(path) ==
    LET slashPath == ToSlash(path)
    IN  IF slashPath = <<DolphinExe>> THEN path
        ELSE IF MatchStar(gameFilesPattern, slashPath) THEN path
        ELSE IF slashPath \in PartialNamedFiles THEN path
        ELSE Empty

\* the selector of partial updates (the revision of app-update.go that still
\* has partial updates); the pattern is well formed, so filepath.Match
\* returns no error
partialUpdateGen(path) ==
    LET slashPath == ToSlash(path)
    IN  IF slashPath = <<"FIX-VCRUNTIME140-ERROR.txt">> THEN path
        ELSE IF MatchStar(gameFilesPattern, slashPath) THEN path
        ELSE IF slashPath \in PartialNamedFiles THEN path
        ELSE Empty

\* extractFiles called with the partial selector in the data pass
GenTargetFilePartialData(pass, path) ==
    CASE pass = "extractUpdater" -> updaterUpdateGen(path)
      [] pass = "dataPass" -> partialUpdateGen(path)
      [] pass = "exePass" -> exeUpdateGen(path)

\* extractFiles called with the full selector where the updater is extracted
GenTargetFileUpdaterFull(pass, path) ==
    CASE pass = "extractUpdater" -> fullUpdateGen(path)
      [] pass = "dataPass" -> fullUpdateGen(path)
      [] pass = "exePass" -> exeUpdateGen(path)

\* the selector a pass of extractFiles is called with
GenTargetFile(pass, path) ==
    CASE pass = "extractUpdater" -> updaterUpdateGen(path)
      [] pass = "dataPass" -> fullUpdateGen(path)
      [] pass = "exePass" -> exeUpdateGen(path)

(***************************************************************************)
(* File contents.  Every file of release r holds the bytes 10r+1 .. 10r+n; *)
(* the first byte of a file stands for the header of an executable image.  *)
(***************************************************************************)
FileBytes(r) == [i \in 1..EntryLen |-> 10 * r + i]

\* the release installed before the run, and the release the service returns
PrevRelease == 0
LatestRelease == 1

Absent == [present |-> FALSE, bytes |-> << >>]
File(bytes) == [present |-> TRUE, bytes |-> bytes]

\* an executable image the loader accepts: it has its header
Loadable(f) == f.present /\ Len(f.bytes) > 0 /\ f.bytes[1] % 10 = 1

\* a file that is exactly the file of some release
Complete(f, r) == f.present /\ f.bytes = FileBytes(r)

(***************************************************************************)
(* The downloaded archive: the names of its entries, in archive order.     *)
(* The release is packed below one top-level directory; a file outside of  *)
(* that directory is part of the archive as well.                          *)
(***************************************************************************)
Archive ==
    << <<"FM", Slash, "Sys", Slash, "GameSettings", Slash, "GALE01r2.ini">>,
       <<"FM", Slash, SlippiDolphinExe>>,
       <<"FM", Slash, SlippiToolsExe>>,
       <<"FM", Slash, "SDL2.dll">>,
       <<"README.md">> >>

\* extractFiles, first loop: the directory of the first entry whose base name
\* is an application executable; "" when there is none
RECURSIVE FindDolphinPath(_, _)
FindDolphinPath(files, i) ==
    IF i > Len(files) THEN Empty
    ELSE IF Base(files[i]) = DolphinExe \/ Base(files[i]) = SlippiDolphinExe
         THEN Dir(files[i])
         ELSE FindDolphinPath(files, i + 1)

dolphinPath == FindDolphinPath(Archive, 1)

dolphinPathPattern == ToSlash(Join(dolphinPath, <<"*">>))

\* extractFiles, second loop, for one entry: the path below the target
\* directory the entry is written to, "" when the entry is skipped
TargetRelPath(pass, name) ==
    IF ~MatchStar(dolphinPathPattern, name) THEN Empty
    ELSE GenTargetFile(pass, Rel(dolphinPath, name))

\* the file of the install directory that filepath.Join(target, rel) names
TargetFile(rel) == Components(rel)

SysDir == <<"Sys">>
GameSettingsDir == <<"Sys", "GameSettings">>

\* a file of the previous install that the release does not have: the
\* settings of a game that is no longer supported
PrevOnlyFile == <<"Sys", "GameSettings", "GKYE01.ini">>

DiskFiles ==
    {slippiToolsPath, oldSlippiToolsPath, <<DolphinExe>>, <<SlippiDolphinExe>>, PrevOnlyFile}
        \cup {Components(Rel(dolphinPath, Archive[i])) :
                 i \in {j \in DOMAIN Archive : MatchStar(dolphinPathPattern, Archive[j])}}

\* the bundled data of the release: what the data pass is to write
DataFiles ==
    {TargetFile(TargetRelPath("dataPass", Archive[i])) : i \in DOMAIN Archive} \ {Empty}

(***************************************************************************)
(* The state.                                                              *)
(***************************************************************************)
\* process 1 is the invocation of the updater, process 2 the child that the
\* self-update hop of process 1 spawns
Procs == {1, 2}

\* previousVersion: empty (an install from before versions were passed) or a
\* version
PrevVersions == { Empty, <<"2.3.0">> }

VARIABLES
    pc,        \* the place of each process in execAppUpdate
    args,      \* isFull, skipUpdaterUpdate, shouldLaunch, isoPath, prevVersion
    disk,      \* the files of the install directory
    running,   \* the names of the application processes that run
    image,     \* the file each process was started from
    ext,       \* extractFiles: entry index, phase, elapsed seconds, reader position, path
    steps,     \* the steps of execAppUpdate each process has executed
    finished,  \* the files each process logged as "Finished copying file"
    timedOut,  \* the files whose retry window elapsed without a success
    faulty,    \* the files on which an attempt to write has failed
    result,    \* what execAppUpdate returned: "none", "nil", "err"
    selPath,   \* a path handed to a manifest selector
    selKind,   \* the selector it was handed to, "none" before the call
    selOut,    \* what the selector returned
    vcr,       \* one call of installVcr: its place, the registry, the installer file
    rel,       \* one release query: previousVersion, the published releases, the answer
    watch,     \* one call of waitForDolphinClose: its place, the processes that run
    ex,        \* one extraction pass over an archive: the entries, the files written
    mig,       \* one call of applyMeleeOnlyChanges: prevVersion, the settings files
    chain      \* the release queries of a self-update chain: the releases, the answers

run == <<pc, args, disk, running, image, ext, steps, finished, timedOut, faulty, result>>
sel == <<selPath, selKind, selOut>>
more == <<ex, mig, chain>>
aux == <<sel, vcr, rel, watch, more>>
vars == <<run, aux>>

\* installVcr, the release query, waitForDolphinClose are not being followed
VcrIdle == [pc |-> "idle"]
RelIdle == [pc |-> "idle"]
WatchIdle == [pc |-> "idle"]
ExIdle == [pc |-> "idle"]
MigIdle == [pc |-> "idle"]
ChainIdle == [pc |-> "idle"]

NoExt == [phase |-> "none", idx |-> 0, elapsed |-> 0, rpos |-> 0, path |-> Empty]

\* isoPath: none, or the path of an image
IsoPaths == { Empty, <<"melee.iso">> }

ArgSet ==
    [isFull : BOOLEAN, skip : BOOLEAN, launch : BOOLEAN, iso : IsoPaths, prev : PrevVersions]

\* the install directory of the previous release
PrevInstall(exe, staged) ==
    [f \in DiskFiles |->
        IF f = <<exe>> \/ f = slippiToolsPath \/ f \in DataFiles \/ f = PrevOnlyFile
        THEN File(FileBytes(PrevRelease))
        ELSE IF f = oldSlippiToolsPath /\ staged THEN File(FileBytes(PrevRelease))
        ELSE Absent]

\* the updater is invoked with the arguments a while the installed
\* application still runs; the application may end at any time
RunInit(a) ==
    /\ pc = [p \in Procs |-> IF p = 1 THEN "start" ELSE "idle"]
    /\ args = [p \in Procs |-> a]
    /\ \E exe \in AppExeNames, staged \in BOOLEAN :
          /\ disk = PrevInstall(exe, staged)
          /\ running = {exe}
    /\ image = [p \in Procs |-> slippiToolsPath]
    /\ ext = [p \in Procs |-> NoExt]
    /\ steps = [p \in Procs |-> {}]
    /\ finished = [p \in Procs |-> {}]
    /\ timedOut = [p \in Procs |-> {}]
    /\ faulty = {}
    /\ result = [p \in Procs |-> "none"]
    /\ selPath = Empty /\ selKind = "none" /\ selOut = Empty
    /\ vcr = VcrIdle /\ rel = RelIdle /\ watch = WatchIdle
    /\ ex = ExIdle /\ mig = MigIdle /\ chain = ChainIdle

\* every mode of the updater, without an isoPath: the code hands isoPath on
\* and never looks at it
Init == \E a \in ArgSet : a.iso = Empty /\ RunInit(a)

Alive(p) == pc[p] \notin {"idle", "exited"}

\* a file that a live process was started from cannot be removed or truncated
InUse(f) ==
    \/ \E p \in Procs : Alive(p) /\ image[p] = f
    \/ \E n \in running : f = <<n>>

\* a deferred recover that does not set the named result: nil is returned
PanicReturnsNil(p) ==
    /\ pc' = [pc EXCEPT ![p] = "done"]
    /\ result' = [result EXCEPT ![p] = "nil"]

\* execAppUpdate without the deferred recover: a panic ends the process
PanicNoRecover(p) ==
    /\ pc' = [pc EXCEPT ![p] = "exited"]
    /\ UNCHANGED result

\* the deferred recover of execAppUpdate: a panic becomes the returned error
Panic(p) ==
    /\ pc' = [pc EXCEPT ![p] = "failed"]
    /\ result' = [result EXCEPT ![p] = "err"]

Did(p, s) == steps' = [steps EXCEPT ![p] = @ \cup {s}]

(***************************************************************************)
(* execAppUpdate up to the branch.                                         *)
(***************************************************************************)
\* "if isFull || skipUpdaterUpdate" before waitForDolphinClose
NeedsWaitFullOnly(a) == a.isFull

\* the wait before the arrival from the hop only
NeedsWaitSkipOnly(a) == a.skip

NeedsWait(a) == a.isFull \/ a.skip

\* os.Executable and the decision to wait
Start(p) ==
    /\ pc[p] = "start"
    /\ \E ok \in BOOLEAN :
          IF ok
          THEN /\ pc' = [pc EXCEPT ![p] = IF NeedsWait(args[p]) THEN "wait1" ELSE "fetch"]
               /\ UNCHANGED result
          ELSE Panic(p)
    /\ UNCHANGED <<args, disk, running, image, ext, steps, finished, timedOut, faulty, aux>>

\* waitForDolphinClose, TASKLIST for Dolphin.exe: sleep and poll again while
\* a process of that name runs
WaitDolphin(p) ==
    /\ pc[p] = "wait1"
    /\ DolphinExe \notin running
    /\ pc' = [pc EXCEPT ![p] = "wait2"]
    /\ UNCHANGED <<args, disk, running, image, ext, steps, finished, timedOut, faulty, result, aux>>

\* waitForDolphinClose, TASKLIST for Slippi Dolphin.exe: back to the first
\* poll while a process of that name runs, else the loop is left
WaitSlippiDolphin(p) ==
    /\ pc[p] = "wait2"
    /\ IF SlippiDolphinExe \in running
       THEN pc' = [pc EXCEPT ![p] = "wait1"] /\ UNCHANGED steps
       ELSE pc' = [pc EXCEPT ![p] = "fetch"] /\ Did(p, "wait")
    /\ UNCHANGED <<args, disk, running, image, ext, finished, timedOut, faulty, result, aux>>

\* getLatestVersion: a failed query leaves no release to index, which panics
GetLatestVersion(p) ==
    /\ pc[p] = "fetch"
    /\ \E ok \in BOOLEAN :
          IF ok
          THEN pc' = [pc EXCEPT ![p] = "tmpdir"] /\ UNCHANGED result
          ELSE Panic(p)
    /\ Did(p, "fetch")
    /\ UNCHANGED <<args, disk, running, image, ext, finished, timedOut, faulty, aux>>

\* ioutil.TempDir
TempDir(p) ==
    /\ pc[p] = "tmpdir"
    /\ \E ok \in BOOLEAN :
          IF ok
          THEN pc' = [pc EXCEPT ![p] = "download"] /\ UNCHANGED result
          ELSE Panic(p)
    /\ UNCHANGED <<args, disk, running, image, ext, steps, finished, timedOut, faulty, aux>>

\* an execAppUpdate that moves the running updater to its staged name
\* before the archive is there
DownloadAfterRename(p) ==
    /\ pc[p] = "download"
    /\ disk' = IF ~args[p].isFull /\ ~args[p].skip
               THEN [disk EXCEPT ![oldSlippiToolsPath] = disk[slippiToolsPath],
                                 ![slippiToolsPath] = Absent]
               ELSE disk
    /\ \E ok \in BOOLEAN :
          IF ok
          THEN pc' = [pc EXCEPT ![p] = "branch"] /\ UNCHANGED result
          ELSE Panic(p)
    /\ Did(p, "download")
    /\ UNCHANGED <<args, running, image, ext, finished, timedOut, faulty, aux>>

\* downloadFile of the archive
Download(p) ==
    /\ pc[p] = "download"
    /\ \E ok \in BOOLEAN :
          IF ok
          THEN pc' = [pc EXCEPT ![p] = "branch"] /\ UNCHANGED result
          ELSE Panic(p)
    /\ Did(p, "download")
    /\ UNCHANGED <<args, disk, running, image, ext, finished, timedOut, faulty, aux>>

(***************************************************************************)
(* The branch of execAppUpdate.                                            *)
(***************************************************************************)
\* the condition with the test of skipUpdaterUpdate inverted
TakesSelfUpdateSkipInverted(a) == ~a.isFull /\ a.skip

\* "if !isFull && !skipUpdaterUpdate"
TakesSelfUpdate(a) == ~a.isFull /\ ~a.skip

\* an install branch taken only when the self-update is marked as done
TakesInstallSkipOnly(a) == a.skip

\* the "else" of that condition
TakesInstall(a) == ~TakesSelfUpdate(a)

Branch(p) ==
    /\ pc[p] = "branch"
    /\ pc' = [pc EXCEPT ![p] =
                IF TakesSelfUpdate(args[p]) THEN "rename"
                ELSE IF TakesInstall(args[p]) THEN "removeOld"
                ELSE "done"]
    /\ result' = [result EXCEPT ![p] =
                IF TakesSelfUpdate(args[p]) \/ TakesInstall(args[p]) THEN @ ELSE "nil"]
    /\ Did(p, "branch")
    /\ UNCHANGED <<args, disk, running, image, ext, finished, timedOut, faulty, aux>>

(***************************************************************************)
(* extractFiles.  ext[p].phase is "open" before zip.OpenReader, "scan" at  *)
(* the head of the second loop and "retry" inside the write-retry loop of  *)
(* entry ext[p].idx.                                                       *)
(***************************************************************************)
ExtractPasses == {"extractUpdater", "dataPass", "exePass"}

\* the step of execAppUpdate that follows each pass
AfterPass(pass) ==
    CASE pass = "extractUpdater" -> "spawn"
      [] pass = "dataPass" -> "exePass"
      [] pass = "exePass" -> "vcr"

BeginPass(p, pass) ==
    /\ pc' = [pc EXCEPT ![p] = pass]
    /\ ext' = [ext EXCEPT ![p] = [phase |-> "open", idx |-> 0, elapsed |-> 0, rpos |-> 0,
                                  path |-> Empty]]

InPass(p) == pc[p] \in ExtractPasses

\* "path := filepath.Join(target, targetRelPath)": the file the current entry
\* of process p is written to, set when the entry is opened
CurTarget(p) == ext[p].path

\* the bytes of an archive entry of the downloaded release
EntryBytes == FileBytes(LatestRelease)

\* zip.OpenReader: an error is returned to execAppUpdate, which panics
ExtractOpenReader(p) ==
    /\ InPass(p) /\ ext[p].phase = "open"
    /\ \E ok \in BOOLEAN :
          IF ok
          THEN /\ ext' = [ext EXCEPT ![p].phase = "scan", ![p].idx = 1]
               /\ UNCHANGED <<pc, result>>
          ELSE Panic(p) /\ ext' = [ext EXCEPT ![p] = NoExt]
    /\ Did(p, pc[p])
    /\ UNCHANGED <<args, disk, running, image, finished, timedOut, faulty, aux>>

\* an entry that does not match the pattern or that the selector excludes
ExtractSkip(p) ==
    /\ InPass(p) /\ ext[p].phase = "scan"
    /\ ext[p].idx <= Len(Archive)
    /\ TargetRelPath(pc[p], Archive[ext[p].idx]) = Empty
    /\ ext' = [ext EXCEPT ![p].idx = @ + 1]
    /\ UNCHANGED <<pc, args, disk, running, image, steps, finished, timedOut, faulty, result, aux>>

\* file.Open of a selected entry; "start := time.Now()"
ExtractOpenEntry(p) ==
    /\ InPass(p) /\ ext[p].phase = "scan"
    /\ ext[p].idx <= Len(Archive)
    /\ TargetRelPath(pc[p], Archive[ext[p].idx]) # Empty
    /\ \E ok \in BOOLEAN :
          IF ok
          THEN /\ ext' = [ext EXCEPT ![p].phase = "retry", ![p].elapsed = 0, ![p].rpos = 0,
                                     ![p].path = TargetFile(TargetRelPath(pc[p], Archive[ext[p].idx]))]
               /\ UNCHANGED <<pc, result>>
          ELSE Panic(p) /\ ext' = [ext EXCEPT ![p] = NoExt]
    /\ UNCHANGED <<args, disk, running, image, steps, finished, timedOut, faulty, aux>>

\* the environment: attempts fail on a bounded number of files
MayFail(f) == f \in faulty \/ Cardinality(faulty) < MaxFaultyFiles

InRetry(p) ==
    /\ InPass(p) /\ ext[p].phase = "retry"
    /\ ext[p].elapsed < RetryWindow

\* os.OpenFile fails: sleep and try again
RetryOpenFails(p) ==
    /\ InRetry(p)
    /\ MayFail(CurTarget(p))
    /\ faulty' = faulty \cup {CurTarget(p)}
    /\ ext' = [ext EXCEPT ![p].elapsed = @ + RetrySleep]
    /\ UNCHANGED <<pc, args, disk, running, image, steps, finished, timedOut, result, aux>>

\* os.OpenFile creates or truncates the target, io.Copy fails after the
\* reader has advanced to r and the bytes up to w have reached the file.
\* The next attempt copies from the same reader.
RetryCopyFails(p) ==
    /\ InRetry(p)
    /\ ~InUse(CurTarget(p))
    /\ MayFail(CurTarget(p))
    /\ faulty' = faulty \cup {CurTarget(p)}
    /\ \E r \in ext[p].rpos..EntryLen : \E w \in ext[p].rpos..r :
          /\ disk' = [disk EXCEPT ![CurTarget(p)] =
                        File(SubSeq(EntryBytes, ext[p].rpos + 1, w))]
          /\ ext' = [ext EXCEPT ![p].elapsed = @ + RetrySleep, ![p].rpos = r]
    /\ UNCHANGED <<pc, args, running, image, steps, finished, timedOut, result, aux>>

\* the line after the retry loop, "if err != nil { return err }": err is the
\* variable of the enclosing block, nil since file.Open, so this is never taken
ErrAfterLoop(timeout) == FALSE

\* os.OpenFile and io.Copy succeed: the rest of the reader is copied, "break",
\* then the entry is logged as finished and the loop goes on to the next entry
RetryCopySucceeds(p) ==
    /\ InRetry(p)
    /\ ~InUse(CurTarget(p))
    /\ disk' = [disk EXCEPT ![CurTarget(p)] =
                  File(SubSeq(EntryBytes, ext[p].rpos + 1, EntryLen))]
    /\ ext' = [ext EXCEPT ![p].phase = "scan", ![p].idx = @ + 1, ![p].rpos = EntryLen,
                           ![p].path = Empty]
    /\ finished' = [finished EXCEPT ![p] = @ \cup {CurTarget(p)}]
    /\ UNCHANGED <<pc, args, running, image, steps, timedOut, faulty, result, aux>>

\* a retry loop whose window starts anew when it has elapsed
RetryWindowElapsedRestarts(p) ==
    /\ InPass(p) /\ ext[p].phase = "retry"
    /\ ext[p].elapsed >= RetryWindow
    /\ timedOut' = [timedOut EXCEPT ![p] = @ \cup {CurTarget(p)}]
    /\ ext' = [ext EXCEPT ![p].elapsed = 0]
    /\ UNCHANGED <<pc, result, finished>>
    /\ UNCHANGED <<args, disk, running, image, steps, faulty, aux>>

\* the window has elapsed: the loop condition ends the loop
RetryWindowElapsed(p) ==
    /\ InPass(p) /\ ext[p].phase = "retry"
    /\ ext[p].elapsed >= RetryWindow
    /\ timedOut' = [timedOut EXCEPT ![p] = @ \cup {CurTarget(p)}]
    /\ IF ErrAfterLoop(TRUE)
       THEN /\ Panic(p)
            /\ ext' = [ext EXCEPT ![p] = NoExt]
            /\ UNCHANGED finished
       ELSE /\ ext' = [ext EXCEPT ![p].phase = "scan", ![p].idx = @ + 1, ![p].path = Empty]
            /\ finished' = [finished EXCEPT ![p] = @ \cup {CurTarget(p)}]
            /\ UNCHANGED <<pc, result>>
    /\ UNCHANGED <<args, disk, running, image, steps, faulty, aux>>

\* the end of the second loop: "return nil"
ExtractReturn(p) ==
    /\ InPass(p) /\ ext[p].phase = "scan"
    /\ ext[p].idx > Len(Archive)
    /\ IF AfterPass(pc[p]) = "exePass"
       THEN BeginPass(p, "exePass")
       ELSE /\ pc' = [pc EXCEPT ![p] = AfterPass(pc[p])]
            /\ ext' = [ext EXCEPT ![p] = NoExt]
    /\ UNCHANGED <<args, disk, running, image, steps, finished, timedOut, faulty, result, aux>>

(***************************************************************************)
(* The self-update path.                                                   *)
(***************************************************************************)
\* os.Rename(slippiToolsPath, oldSlippiToolsPath): the running updater moves
\* to the staged name, replacing a file that is there
RenameTools(p) ==
    /\ pc[p] = "rename"
    /\ \E ok \in BOOLEAN :
          IF ok /\ disk[slippiToolsPath].present /\ ~InUse(oldSlippiToolsPath)
          THEN /\ disk' = [disk EXCEPT ![oldSlippiToolsPath] = disk[slippiToolsPath],
                                       ![slippiToolsPath] = Absent]
               /\ image' = [q \in Procs |->
                              IF Alive(q) /\ image[q] = slippiToolsPath
                              THEN oldSlippiToolsPath ELSE image[q]]
               /\ BeginPass(p, "extractUpdater")
               /\ UNCHANGED result
          ELSE Panic(p) /\ UNCHANGED <<disk, image, ext>>
    /\ Did(p, "rename")
    /\ UNCHANGED <<args, running, finished, timedOut, faulty, aux>>

(***************************************************************************)
(* The command line of the child.  An argument is a string: a sequence of  *)
(* tokens, where the name of a flag, "=" and a value are tokens.           *)
(***************************************************************************)
\* fmt.Sprintf("%t", b)
FormatBool(b) == IF b THEN "true" ELSE "false"

\* the command line with the values of -iso and -version exchanged
ChildArgvExchanged(a) ==
    << <<"app-update">>, <<"-skip-updater">>, <<"-launch", "=", FormatBool(a.launch)>>,
       <<"-iso">>, a.prev, <<"-version">>, a.iso >>

\* os.Args[1:] of the child: "app-update", "-skip-updater", launchArg, "-iso",
\* isoPath, "-version", prevVersion; -full is not passed
ChildArgv(a) ==
    << <<"app-update">>, <<"-skip-updater">>, <<"-launch", "=", FormatBool(a.launch)>>,
       <<"-iso">>, a.iso, <<"-version">>, a.prev >>

\* the flag set of main
BoolFlags == {"-full", "-skip-updater", "-launch"}
\* the flag of previousVersion, which main hands to execAppUpdate as its
\* fifth argument
VersionFlag == "-version"
StringFlags == {"-iso", VersionFlag}

\* the tokens that begin with "-"
DashTokens == {"-full", "-skip-updater", "-launch", "-iso", "-version", "-help"}

NoFlags ==
    [ok |-> TRUE, full |-> FALSE, skipUpdater |-> FALSE, launch |-> FALSE,
     iso |-> Empty, version |-> Empty]

SetFlag(f, name, value) ==
    CASE name = "-full" -> [f EXCEPT !.full = value]
      [] name = "-skip-updater" -> [f EXCEPT !.skipUpdater = value]
      [] name = "-launch" -> [f EXCEPT !.launch = value]
      [] name = "-iso" -> [f EXCEPT !.iso = value]
      [] name = VersionFlag -> [f EXCEPT !.version = value]

\* FlagSet.Parse: an argument that does not begin with a flag ends the
\* parsing; a boolean flag takes "true" or the value after "="; a string flag
\* takes the value after "=" or the next argument; an unknown flag, a missing
\* value and a value that is no boolean are errors
RECURSIVE ParseFlags(_, _, _)
ParseFlags(argv, i, f) ==
    IF i > Len(argv) THEN f
    ELSE LET a == argv[i]
             name == a[1]
             hasValue == Len(a) >= 2 /\ a[2] = "="
             value == SubSeq(a, 3, Len(a))
         IN  IF a = Empty \/ name \notin DashTokens THEN f
             ELSE IF name \notin BoolFlags \cup StringFlags THEN [f EXCEPT !.ok = FALSE]
             ELSE IF name \in BoolFlags
             THEN IF ~hasValue THEN ParseFlags(argv, i + 1, SetFlag(f, name, TRUE))
                  ELSE IF value = <<"true">> THEN ParseFlags(argv, i + 1, SetFlag(f, name, TRUE))
                  ELSE IF value = <<"false">> THEN ParseFlags(argv, i + 1, SetFlag(f, name, FALSE))
                  ELSE [f EXCEPT !.ok = FALSE]
             ELSE IF hasValue THEN ParseFlags(argv, i + 1, SetFlag(f, name, value))
             ELSE IF i < Len(argv) THEN ParseFlags(argv, i + 2, SetFlag(f, name, argv[i + 1]))
             ELSE [f EXCEPT !.ok = FALSE]

\* main, command "app-update": the flags of os.Args[2:] become the arguments
\* of execAppUpdate
mainFlags(argv) == ParseFlags(argv, 2, NoFlags)

\* the arguments execAppUpdate is called with in the child
ChildArgs(a) ==
    LET f == mainFlags(ChildArgv(a))
    IN  [isFull |-> f.full, skip |-> f.skipUpdater, launch |-> f.launch,
         iso |-> f.iso, prev |-> f.version]

\* an execAppUpdate in which the install branch follows the start of the new
\* updater instead of being its alternative
SpawnThenInstall(p) ==
    /\ pc[p] = "spawn"
    /\ \E ok \in BOOLEAN :
          IF ok /\ Loadable(disk[slippiToolsPath])
          THEN /\ pc' = [pc EXCEPT ![p] = "removeOld",
                                    ![2] = IF mainFlags(ChildArgv(args[p])).ok
                                           THEN "start" ELSE "exited"]
               /\ UNCHANGED result
               /\ args' = [args EXCEPT ![2] = ChildArgs(args[p])]
               /\ image' = [image EXCEPT ![2] = slippiToolsPath]
          ELSE Panic(p) /\ UNCHANGED <<args, image>>
    /\ Did(p, "spawn")
    /\ UNCHANGED <<disk, running, ext, finished, timedOut, faulty, aux>>

\* cmd.Start of the new updater; the parent then returns nil
Spawn(p) ==
    /\ pc[p] = "spawn"
    /\ \E ok \in BOOLEAN :
          IF ok /\ Loadable(disk[slippiToolsPath])
          THEN /\ pc' = [pc EXCEPT ![p] = "done",
                                    ![2] = IF mainFlags(ChildArgv(args[p])).ok
                                           THEN "start" ELSE "exited"]
               /\ result' = [result EXCEPT ![p] = "nil"]
               /\ args' = [args EXCEPT ![2] = ChildArgs(args[p])]
               /\ image' = [image EXCEPT ![2] = slippiToolsPath]
          ELSE Panic(p) /\ UNCHANGED <<args, image>>
    /\ Did(p, "spawn")
    /\ UNCHANGED <<disk, running, ext, finished, timedOut, faulty, aux>>

(***************************************************************************)
(* The install path.                                                       *)
(***************************************************************************)
\* os.RemoveAll(oldSlippiToolsPath), its error is dropped
RemoveOld(p) ==
    /\ pc[p] = "removeOld"
    /\ disk' = IF InUse(oldSlippiToolsPath) THEN disk
               ELSE [disk EXCEPT ![oldSlippiToolsPath] = Absent]
    /\ pc' = [pc EXCEPT ![p] = "migrate"]
    /\ Did(p, "removeOld")
    /\ UNCHANGED <<args, running, image, ext, finished, timedOut, faulty, result, aux>>

\* applyMeleeOnlyChanges: with an empty prevVersion every file below
\* Sys/GameSettings is removed; a failed removal panics, and where there is
\* nothing to remove nothing can fail
ApplyMeleeOnlyChanges(p) ==
    /\ pc[p] = "migrate"
    /\ IF args[p].prev # Empty
       THEN /\ pc' = [pc EXCEPT ![p] = "deletePrev"]
            /\ UNCHANGED <<disk, result>>
       ELSE \E ok \in BOOLEAN :
              IF ok \/ ~\E f \in DiskFiles : IsPrefix(GameSettingsDir, f) /\ disk[f].present
              THEN /\ disk' = [f \in DiskFiles |->
                                 IF IsPrefix(GameSettingsDir, f) THEN Absent ELSE disk[f]]
                   /\ pc' = [pc EXCEPT ![p] = "deletePrev"]
                   /\ UNCHANGED result
              ELSE Panic(p) /\ UNCHANGED disk
    /\ Did(p, "migrate")
    /\ UNCHANGED <<args, running, image, ext, finished, timedOut, faulty, aux>>

\* a deletePrevious that removes the two executables and leaves Sys
DeleteTargetsExeOnly == << <<DolphinExe>>, <<SlippiDolphinExe>> >>

\* what deletePrevious removes, in its order
DeleteTargets == << <<DolphinExe>>, <<SlippiDolphinExe>>, SysDir >>

\* deletePrevious: k of its three removals succeed; a failed one is returned
\* and execAppUpdate panics
DeletePrevious(p) ==
    /\ pc[p] = "deletePrev"
    /\ \E k \in 0..Len(DeleteTargets) :
          /\ \A j \in 1..k : \A f \in DiskFiles :
                IsPrefix(DeleteTargets[j], f) => ~InUse(f)
          /\ disk' = [f \in DiskFiles |->
                        IF \E j \in 1..k : IsPrefix(DeleteTargets[j], f)
                        THEN Absent ELSE disk[f]]
          /\ IF k = Len(DeleteTargets)
             THEN BeginPass(p, "dataPass") /\ UNCHANGED result
             ELSE Panic(p) /\ UNCHANGED ext
    /\ Did(p, "deletePrev")
    /\ UNCHANGED <<args, running, image, finished, timedOut, faulty, aux>>

\* installVcr: it returns, or it panics (download or installer failure)
InstallVcr(p) ==
    /\ pc[p] = "vcr"
    /\ \E ok \in BOOLEAN :
          IF ok
          THEN pc' = [pc EXCEPT ![p] = "launch"] /\ UNCHANGED result
          ELSE Panic(p)
    /\ Did(p, "vcr")
    /\ UNCHANGED <<args, disk, running, image, ext, finished, timedOut, faulty, aux>>

\* the application started whatever shouldLaunch is
LaunchAlways(p) ==
    /\ pc[p] = "launch"
    /\ \E ok \in BOOLEAN :
          running' = IF ok /\ Loadable(disk[<<SlippiDolphinExe>>])
                     THEN running \cup {SlippiDolphinExe} ELSE running
    /\ Did(p, "launch")
    /\ pc' = [pc EXCEPT ![p] = "done"]
    /\ result' = [result EXCEPT ![p] = "nil"]
    /\ UNCHANGED <<args, disk, image, ext, finished, timedOut, faulty, aux>>

\* "if shouldLaunch": cmd.Start of Slippi Dolphin.exe, whose error is dropped;
\* then "return nil"
Launch(p) ==
    /\ pc[p] = "launch"
    /\ IF args[p].launch
       THEN /\ \E ok \in BOOLEAN :
                 running' = IF ok /\ Loadable(disk[<<SlippiDolphinExe>>])
                            THEN running \cup {SlippiDolphinExe} ELSE running
            /\ Did(p, "launch")
       ELSE UNCHANGED <<running, steps>>
    /\ pc' = [pc EXCEPT ![p] = "done"]
    /\ result' = [result EXCEPT ![p] = "nil"]
    /\ UNCHANGED <<args, disk, image, ext, finished, timedOut, faulty, aux>>

(***************************************************************************)
(* The environment.                                                        *)
(***************************************************************************)
\* main returns after execAppUpdate returned nil: the process is gone.  After
\* an error main keeps the window open and the process stays.
ProcessExit(p) ==
    /\ pc[p] = "done"
    /\ pc' = [pc EXCEPT ![p] = "exited"]
    /\ UNCHANGED <<args, disk, running, image, ext, steps, finished, timedOut, faulty, result, aux>>

\* an application process ends
AppExit(n) ==
    /\ n \in running
    /\ running' = running \ {n}
    /\ UNCHANGED <<pc, args, disk, image, ext, steps, finished, timedOut, faulty, result, aux>>

Next ==
    \/ \E p \in Procs :
          \/ Start(p)
          \/ WaitDolphin(p)
          \/ WaitSlippiDolphin(p)
          \/ GetLatestVersion(p)
          \/ TempDir(p)
          \/ Download(p)
          \/ Branch(p)
          \/ RenameTools(p)
          \/ ExtractOpenReader(p)
          \/ ExtractSkip(p)
          \/ ExtractOpenEntry(p)
          \/ RetryOpenFails(p)
          \/ RetryCopyFails(p)
          \/ RetryCopySucceeds(p)
          \/ RetryWindowElapsed(p)
          \/ ExtractReturn(p)
          \/ Spawn(p)
          \/ RemoveOld(p)
          \/ ApplyMeleeOnlyChanges(p)
          \/ DeletePrevious(p)
          \/ InstallVcr(p)
          \/ Launch(p)
          \/ ProcessExit(p)
    \/ \E n \in AppExeNames : AppExit(n)

Spec == Init /\ [][Next]_vars

\* the chains of an invocation that takes the self-update hop, with and
\* without an isoPath
HopInit == \E a \in ArgSet : ~a.isFull /\ ~a.skip /\ RunInit(a)

HopSpec == HopInit /\ [][Next]_vars

\* the steps of process p: every action of Next that is a step of a run
RunStep(p) ==
    \/ Start(p)
    \/ WaitDolphin(p)
    \/ WaitSlippiDolphin(p)
    \/ GetLatestVersion(p)
    \/ TempDir(p)
    \/ Download(p)
    \/ Branch(p)
    \/ RenameTools(p)
    \/ ExtractOpenReader(p)
    \/ ExtractSkip(p)
    \/ ExtractOpenEntry(p)
    \/ RetryOpenFails(p)
    \/ RetryCopyFails(p)
    \/ RetryCopySucceeds(p)
    \/ RetryWindowElapsed(p)
    \/ ExtractReturn(p)
    \/ Spawn(p)
    \/ RemoveOld(p)
    \/ ApplyMeleeOnlyChanges(p)
    \/ DeletePrevious(p)
    \/ InstallVcr(p)
    \/ Launch(p)
    \/ ProcessExit(p)

\* the run that is followed to its end: an invocation without arguments of an
\* install that launches when it is done; the parent takes the self-update
\* hop and its child waits and installs
TermInit ==
    \E a \in ArgSet :
        /\ ~a.isFull /\ ~a.skip /\ a.launch /\ a.iso = Empty /\ a.prev = Empty
        /\ RunInit(a)
        /\ disk = PrevInstall(SlippiDolphinExe, TRUE)

\* a process that runs goes on to its next statement: the calls of the run
\* (the release query, the download, the installer) come back, every failed
\* attempt of the retry loop sleeps and ends, and main returns.  Nothing is
\* asked of the application processes.
FairSpec == TermInit /\ [][Next]_vars /\ WF_vars(\E p \in Procs : RunStep(p))

(***************************************************************************)
(* The manifest selectors on their own: a path is drawn and handed to a    *)
(* selector.                                                               *)
(***************************************************************************)
MaxPathLen == 3

PathTokens ==
    {DolphinExe, SlippiDolphinExe, SlippiToolsExe, "Sys", "a.bin", Slash, BackSlash,
     "FIX-VCRUNTIME140-ERROR.txt", "GALE01r2.ini", "GALJ01r2.ini", "GALE01.ini"}

RECURSIVE PathsOfLen(_)
PathsOfLen(n) ==
    IF n = 0 THEN {Empty}
    ELSE {Append(q, t) : q \in PathsOfLen(n - 1), t \in PathTokens}

\* the directories the selectors name
SelDirs ==
    { <<"Sys", "GameFiles", "GALE01">>, <<"Sys", "GameSettings">>,
      <<"User", "GameSettings">>, <<"Sys", "GameFiles">> }

\* nothing, or one of these directories written with either separator
SelPrefixes ==
    {Empty} \cup {Append(JoinWith(d, s), s) : d \in SelDirs, s \in Separators}

\* the non-empty paths of at most MaxPathLen tokens, below a prefix
SelPaths ==
    {pre \o q : pre \in SelPrefixes, q \in UNION {PathsOfLen(n) : n \in 1..MaxPathLen}}

SelInit ==
    /\ pc = [p \in Procs |-> "idle"]
    /\ args = [p \in Procs |-> [isFull |-> FALSE, skip |-> FALSE, launch |-> FALSE, iso |-> Empty, prev |-> Empty]]
    /\ disk = PrevInstall(DolphinExe, FALSE)
    /\ running = {}
    /\ image = [p \in Procs |-> slippiToolsPath]
    /\ ext = [p \in Procs |-> NoExt]
    /\ steps = [p \in Procs |-> {}]
    /\ finished = [p \in Procs |-> {}]
    /\ timedOut = [p \in Procs |-> {}]
    /\ faulty = {}
    /\ result = [p \in Procs |-> "none"]
    /\ selPath \in SelPaths /\ selKind = "none" /\ selOut = Empty
    /\ vcr = VcrIdle /\ rel = RelIdle /\ watch = WatchIdle
    /\ ex = ExIdle /\ mig = MigIdle /\ chain = ChainIdle

CallFullUpdateGen ==
    /\ selKind = "none"
    /\ selKind' = "full"
    /\ selOut' = fullUpdateGen(selPath)
    /\ UNCHANGED <<selPath, run, vcr, rel, watch, more>>

CallPartialUpdateGen ==
    /\ selKind = "none"
    /\ selKind' = "partial"
    /\ selOut' = partialUpdateGen(selPath)
    /\ UNCHANGED <<selPath, run, vcr, rel, watch, more>>

CallUpdaterUpdateGen ==
    /\ selKind = "none"
    /\ selKind' = "updater"
    /\ selOut' = updaterUpdateGen(selPath)
    /\ UNCHANGED <<selPath, run, vcr, rel, watch, more>>

CallExeUpdateGen ==
    /\ selKind = "none"
    /\ selKind' = "exe"
    /\ selOut' = exeUpdateGen(selPath)
    /\ UNCHANGED <<selPath, run, vcr, rel, watch, more>>

SelNext ==
    \/ CallFullUpdateGen
    \/ CallPartialUpdateGen
    \/ CallUpdaterUpdateGen
    \/ CallExeUpdateGen

SelSpec == SelInit /\ [][SelNext]_vars

(***************************************************************************)
(* installVcr on its own: the registry and the downloaded installer are    *)
(* drawn, and one call of installVcr is followed step by step.             *)
(***************************************************************************)
\* the largest component of a version
MaxVer == 1

\* 1 << 16: FileVersion packs four 16-bit components into two double words
VerWord == 65536

\* exit statuses of vc_redist: done, a newer version is installed already,
\* done but a restart is needed, and a failure
ExitOk == 0
ExitNewerInstalled == 1638
ExitRestartNeeded == 3010
ExitFailure == 1
VcrExitCodes == {ExitOk, ExitNewerInstalled, ExitRestartNeeded, ExitFailure}

RegNames == <<"Major", "Minor", "Bld", "Rbld">>
VersionTuples == [1..4 -> 0..MaxVer]

\* the values of the key that cannot be read: none, or the one at which
\* getCurrentVcrVersion returns early
UnreadableSets == {{}} \cup {{i} : i \in 1..4}

\* fmt.Sprintf("%d.%d.%d.%d", ..): a number stands for its decimal digits
FormatVersion(a, b, c, d) == <<a, ".", b, ".", c, ".", d>>

\* VS_FIXEDFILEINFO of a file whose version is the tuple t
FixedFileInfo(t) == [ms |-> t[1] * VerWord + t[2], ls |-> t[3] * VerWord + t[4]]

\* getCurrentVcrVersion: "" when a value of the key cannot be read
getCurrentVcrVersion(reg, unreadable) ==
    IF unreadable # {} THEN Empty
    ELSE FormatVersion(reg[1], reg[2], reg[3], reg[4])

\* getInstallerVcrVersion for a file whose version info could be loaded:
\* FileVersion() is ms << 32 | ls, and the four masks and shifts take its
\* 16-bit components
getInstallerVcrVersion(fixed) ==
    FormatVersion(fixed.ms \div VerWord, fixed.ms % VerWord,
                  fixed.ls \div VerWord, fixed.ls % VerWord)

VcrInit ==
    /\ pc = [p \in Procs |-> "idle"]
    /\ args = [p \in Procs |-> [isFull |-> FALSE, skip |-> FALSE, launch |-> FALSE, iso |-> Empty, prev |-> Empty]]
    /\ disk = PrevInstall(DolphinExe, FALSE)
    /\ running = {}
    /\ image = [p \in Procs |-> slippiToolsPath]
    /\ ext = [p \in Procs |-> NoExt]
    /\ steps = [p \in Procs |-> {}]
    /\ finished = [p \in Procs |-> {}]
    /\ timedOut = [p \in Procs |-> {}]
    /\ faulty = {}
    /\ result = [p \in Procs |-> "none"]
    /\ selPath = Empty /\ selKind = "none" /\ selOut = Empty
    /\ rel = RelIdle /\ watch = WatchIdle
    /\ ex = ExIdle /\ mig = MigIdle /\ chain = ChainIdle
    /\ \E installed \in VersionTuples, unreadable \in UnreadableSets, bundled \in VersionTuples :
          vcr = [pc |-> "download", reg |-> installed, unreadable |-> unreadable,
                 bundled |-> bundled, currentVersion |-> Empty, installerVersion |-> Empty,
                 runs |-> 0, exit |-> ExitOk]

\* downloadFile of vc_redist.x64.exe to the temporary directory
VcrDownload ==
    /\ vcr.pc = "download"
    /\ \E ok \in BOOLEAN :
          vcr' = [vcr EXCEPT !.pc = IF ok THEN "versions" ELSE "panicked"]
    /\ UNCHANGED <<run, sel, rel, watch, more>>

\* the two versions are read; getInstallerVcrVersion panics when the version
\* info of the file cannot be loaded
VcrVersions ==
    /\ vcr.pc = "versions"
    /\ \E ok \in BOOLEAN :
          vcr' = IF ok
                 THEN [vcr EXCEPT !.pc = "compare",
                                  !.currentVersion = getCurrentVcrVersion(vcr.reg, vcr.unreadable),
                                  !.installerVersion = getInstallerVcrVersion(FixedFileInfo(vcr.bundled))]
                 ELSE [vcr EXCEPT !.pc = "panicked"]
    /\ UNCHANGED <<run, sel, rel, watch, more>>

\* installVcr of the revision before the version check: the installer is run
\* every time
VcrCompareNoCheck ==
    /\ vcr.pc = "compare"
    /\ vcr' = [vcr EXCEPT !.pc = "run"]
    /\ UNCHANGED <<run, sel, rel, watch, more>>

\* the versions in order: a is lower than b when it is lower in the first
\* component in which the two differ
VerLess(a, b) ==
    \E i \in 1..4 : a[i] < b[i] /\ \A j \in 1..(i - 1) : a[j] = b[j]

\* the installed version with every value that cannot be read as the lowest
InstalledTuple(reg, unreadable) == [i \in 1..4 |-> IF i \in unreadable THEN -1 ELSE reg[i]]

\* an installVcr that runs the installer only for a lower installed version
VcrCompareLowerOnly ==
    /\ vcr.pc = "compare"
    /\ vcr' = [vcr EXCEPT !.pc = IF VerLess(InstalledTuple(vcr.reg, vcr.unreadable), vcr.bundled)
                                 THEN "run" ELSE "returned"]
    /\ UNCHANGED <<run, sel, rel, watch, more>>

\* "if currentVersion == installerVersion { return }"
VcrCompare ==
    /\ vcr.pc = "compare"
    /\ vcr' = [vcr EXCEPT !.pc = IF vcr.currentVersion = vcr.installerVersion
                                 THEN "returned" ELSE "run"]
    /\ UNCHANGED <<run, sel, rel, watch, more>>

\* an installVcr for which "exit status 3010" is a failure as well
VcrRunRestartFatal ==
    /\ vcr.pc = "run"
    /\ \E code \in VcrExitCodes :
          vcr' = [vcr EXCEPT !.runs = @ + 1,
                            !.exit = code,
                            !.pc = IF code \in {ExitOk, ExitNewerInstalled}
                                   THEN "returned" ELSE "panicked"]
    /\ UNCHANGED <<run, sel, rel, watch, more>>

\* cmd.Run of the installer and the handling of its exit status
VcrRun ==
    /\ vcr.pc = "run"
    /\ \E code \in VcrExitCodes :
          vcr' = [vcr EXCEPT !.runs = @ + 1,
                            !.exit = code,
                            !.pc = IF code \in {ExitOk, ExitNewerInstalled, ExitRestartNeeded}
                                   THEN "returned" ELSE "panicked"]
    /\ UNCHANGED <<run, sel, rel, watch, more>>

VcrNext == VcrDownload \/ VcrVersions \/ VcrCompare \/ VcrRun

VcrSpec == VcrInit /\ [][VcrNext]_vars

(***************************************************************************)
(* The release query on its own: previousVersion and the releases the      *)
(* service has published are drawn, and the query of one run is followed.  *)
(* A version string is a sequence of characters here.                      *)
(***************************************************************************)
\* number of pieces a previousVersion is put together from
MaxPieces == 3
\* number of releases the service has published
MaxReleases == 2

\* "-beta"
BetaMarker == <<"-", "b", "e", "t", "a">>

Pieces == { <<"2", ".", "3">>, <<"-">>, <<"b", "e", "t", "a">>, <<"-", "b", "e", "t">>, <<"a">> }

RECURSIVE StringsOf(_)
StringsOf(n) ==
    IF n = 0 THEN {Empty}
    ELSE {q \o t : q \in StringsOf(n - 1), t \in Pieces}

RelPrevVersions == UNION {StringsOf(n) : n \in 0..MaxPieces}

\* strings.Contains
Contains(str, substr) ==
    \E i \in 0..(Len(str) - Len(substr)) : SubSeq(str, i + 1, i + Len(substr)) = substr

\* the channels of a release: the two the updater knows and another one
Stable == "ishii"
Beta == "ishii-beta"
ReleaseTypes == {Stable, Beta, "netplay"}

\* the published releases in the order of their releasedAt
ReleaseLists == UNION {[1..n -> ReleaseTypes] : n \in 0..MaxReleases}

\* the variable "types" of a query that asks for the stable channel only
typesStableOnly(isBeta) == <<Stable>>

\* the variable "types" of the query
types(isBeta) == IF isBeta THEN <<Stable, Beta>> ELSE <<Stable>>

\* the answer of the service: dolphinVersions(order_by: {releasedAt: desc},
\* where: {type: {_in: $types}}, limit: 1), as the indices of the releases
dolphinVersions(db, tps) ==
    LET hits == {i \in DOMAIN db : \E k \in DOMAIN tps : db[i] = tps[k]}
    IN  IF hits = {} THEN Empty
        ELSE <<CHOOSE i \in hits : \A j \in hits : j <= i>>

RelInit ==
    /\ pc = [p \in Procs |-> "idle"]
    /\ args = [p \in Procs |-> [isFull |-> FALSE, skip |-> FALSE, launch |-> FALSE, iso |-> Empty, prev |-> Empty]]
    /\ disk = PrevInstall(DolphinExe, FALSE)
    /\ running = {}
    /\ image = [p \in Procs |-> slippiToolsPath]
    /\ ext = [p \in Procs |-> NoExt]
    /\ steps = [p \in Procs |-> {}]
    /\ finished = [p \in Procs |-> {}]
    /\ timedOut = [p \in Procs |-> {}]
    /\ faulty = {}
    /\ result = [p \in Procs |-> "none"]
    /\ selPath = Empty /\ selKind = "none" /\ selOut = Empty
    /\ vcr = VcrIdle /\ watch = WatchIdle
    /\ ex = ExIdle /\ mig = MigIdle /\ chain = ChainIdle
    /\ \E prevVersion \in RelPrevVersions, db \in ReleaseLists :
          rel = [pc |-> "isBeta", prevVersion |-> prevVersion, db |-> db,
                 isBeta |-> FALSE, types |-> Empty, latest |-> 0]

\* isBeta := strings.Contains(prevVersion, "-beta")
RelIsBeta ==
    /\ rel.pc = "isBeta"
    /\ rel' = [rel EXCEPT !.pc = "query", !.isBeta = Contains(rel.prevVersion, BetaMarker)]
    /\ UNCHANGED <<run, sel, vcr, watch, more>>

\* getLatestVersion: the error of client.Run is logged only, and
\* resp.DolphinVersions[0] panics when the response holds no release
RelGetLatestVersion ==
    /\ rel.pc = "query"
    /\ \E ok \in BOOLEAN :
          LET tps == types(rel.isBeta)
              resp == IF ok THEN dolphinVersions(rel.db, tps) ELSE Empty
          IN  rel' = IF resp = Empty
                     THEN [rel EXCEPT !.pc = "panicked", !.types = tps]
                     ELSE [rel EXCEPT !.pc = "returned", !.types = tps, !.latest = resp[1]]
    /\ UNCHANGED <<run, sel, vcr, watch, more>>

RelNext == RelIsBeta \/ RelGetLatestVersion

RelSpec == RelInit /\ [][RelNext]_vars

(***************************************************************************)
(* waitForDolphinClose on its own: the application processes that run are  *)
(* drawn, they end and are started while the call polls, and TASKLIST may  *)
(* fail to run.                                                            *)
(***************************************************************************)
\* number of processes of one name that run at a time
MaxInstances == 2
\* number of application processes started while the call polls
MaxAppStarts == 2

\* "len(splitOutp) > 3": the lines of TASKLIST above the first process
HeaderLines == 3

\* len(strings.Split(output, "\n")) for the output of TASKLIST: one line and
\* the empty rest when no process matches, an empty line, two header lines,
\* one line for each process and the empty rest when some do, and the empty
\* string alone when TASKLIST could not be run (the error is dropped)
SplitLines(ran, n) ==
    IF ~ran THEN 1
    ELSE IF n = 0 THEN 2
    ELSE HeaderLines + n + 1

WatchInit ==
    /\ pc = [p \in Procs |-> "idle"]
    /\ args = [p \in Procs |-> [isFull |-> FALSE, skip |-> FALSE, launch |-> FALSE, iso |-> Empty, prev |-> Empty]]
    /\ disk = PrevInstall(DolphinExe, FALSE)
    /\ running = {}
    /\ image = [p \in Procs |-> slippiToolsPath]
    /\ ext = [p \in Procs |-> NoExt]
    /\ steps = [p \in Procs |-> {}]
    /\ finished = [p \in Procs |-> {}]
    /\ timedOut = [p \in Procs |-> {}]
    /\ faulty = {}
    /\ result = [p \in Procs |-> "none"]
    /\ selPath = Empty /\ selKind = "none" /\ selOut = Empty
    /\ vcr = VcrIdle /\ rel = RelIdle
    /\ ex = ExIdle /\ mig = MigIdle /\ chain = ChainIdle
    /\ \E procs \in [AppExeNames -> 0..MaxInstances] :
          watch = [pc |-> "pollDolphin", procs |-> procs, starts |-> 0,
                   slept |-> FALSE, failed |-> FALSE]

\* TASKLIST /FI "IMAGENAME eq Dolphin.exe": sleep and poll again when the
\* output has more than three lines
WatchPollDolphin ==
    /\ watch.pc = "pollDolphin"
    /\ \E ran \in BOOLEAN :
          watch' = IF SplitLines(ran, watch.procs[DolphinExe]) > HeaderLines
                   THEN [watch EXCEPT !.slept = TRUE]
                   ELSE [watch EXCEPT !.pc = "pollSlippiDolphin", !.failed = @ \/ ~ran]
    /\ UNCHANGED <<run, sel, vcr, rel, more>>

\* TASKLIST /FI "IMAGENAME eq Slippi Dolphin.exe": sleep and start over when
\* the output has more than three lines, leave the loop otherwise
WatchPollSlippiDolphin ==
    /\ watch.pc = "pollSlippiDolphin"
    /\ \E ran \in BOOLEAN :
          watch' = IF SplitLines(ran, watch.procs[SlippiDolphinExe]) > HeaderLines
                   THEN [watch EXCEPT !.pc = "pollDolphin", !.slept = TRUE]
                   ELSE [watch EXCEPT !.pc = "returned", !.failed = @ \/ ~ran]
    /\ UNCHANGED <<run, sel, vcr, rel, more>>

\* an application process ends while the call polls
WatchAppExit(n) ==
    /\ watch.pc \in {"pollDolphin", "pollSlippiDolphin"}
    /\ watch.procs[n] > 0
    /\ watch' = [watch EXCEPT !.procs[n] = @ - 1]
    /\ UNCHANGED <<run, sel, vcr, rel, more>>

\* the user starts the application while the call polls
WatchAppStart(n) ==
    /\ watch.pc \in {"pollDolphin", "pollSlippiDolphin"}
    /\ watch.starts < MaxAppStarts
    /\ watch.procs[n] < MaxInstances
    /\ watch' = [watch EXCEPT !.procs[n] = @ + 1, !.starts = @ + 1]
    /\ UNCHANGED <<run, sel, vcr, rel, more>>

WatchNext ==
    \/ WatchPollDolphin
    \/ WatchPollSlippiDolphin
    \/ \E n \in AppExeNames : WatchAppExit(n) \/ WatchAppStart(n)

WatchSpec == WatchInit /\ [][WatchNext]_vars

\* a turn of the loop other than the first one in which TASKLIST cannot be run
WatchLoopRuns ==
    /\ WatchPollDolphin \/ WatchPollSlippiDolphin
    /\ watch'.failed = watch.failed

\* the loop has no exit but its break and no blocking call but the bounded
\* sleep and TASKLIST, so the thread of the call goes on polling; the
\* application processes end when the user ends them, and TASKLIST is not
\* bound ever to fail
WatchFairSpec == WatchSpec /\ WF_vars(WatchLoopRuns)

(***************************************************************************)
(* extractFiles on its own: an archive and a selector are drawn, and one   *)
(* extraction pass is followed entry by entry.  Every write succeeds.      *)
(***************************************************************************)
\* the largest number of entries of a drawn archive
MaxEntries == 3

\* the names an entry of a drawn archive can have
EntryNames ==
    { <<SlippiDolphinExe>>,
      <<"README.md">>,
      <<"FM", Slash, SlippiDolphinExe>>,
      <<"FM", Slash, DolphinExe>>,
      <<"FM", Slash, SlippiToolsExe>>,
      <<"FM", Slash, "Sys", Slash, "a.bin">>,
      <<"FM", BackSlash, "SDL2.dll">>,
      <<ClassName, Slash, SlippiDolphinExe>>,
      <<ClassName, Slash, "SDL2.dll">>,
      <<ClassMatch, Slash, "SDL2.dll">> }

\* the archives of n entries, no name twice
ArchivesOfLen(n) ==
    {a \in [1..n -> EntryNames] : \A i, j \in 1..n : i # j => a[i] # a[j]}

ExArchives == UNION {ArchivesOfLen(n) : n \in 1..MaxEntries}

\* the passes extractFiles is called for, each with its selector
ExPasses == {"extractUpdater", "dataPass", "exePass"}

\* no run of execAppUpdate is being followed
NoRun ==
    /\ pc = [p \in Procs |-> "idle"]
    /\ args = [p \in Procs |-> [isFull |-> FALSE, skip |-> FALSE, launch |-> FALSE, iso |-> Empty, prev |-> Empty]]
    /\ disk = PrevInstall(DolphinExe, FALSE)
    /\ running = {}
    /\ image = [p \in Procs |-> slippiToolsPath]
    /\ ext = [p \in Procs |-> NoExt]
    /\ steps = [p \in Procs |-> {}]
    /\ finished = [p \in Procs |-> {}]
    /\ timedOut = [p \in Procs |-> {}]
    /\ faulty = {}
    /\ result = [p \in Procs |-> "none"]
    /\ selPath = Empty /\ selKind = "none" /\ selOut = Empty

ExtInit ==
    /\ NoRun
    /\ vcr = VcrIdle /\ rel = RelIdle /\ watch = WatchIdle /\ mig = MigIdle
    /\ chain = ChainIdle
    /\ \E files \in ExArchives, pass \in ExPasses :
          ex = [pc |-> "find", files |-> files, pass |-> pass,
                dolphinPath |-> Empty, idx |-> 1, written |-> {}]

\* the first loop: the directory of the first application executable
ExFindDolphin ==
    /\ ex.pc = "find"
    /\ ex' = [ex EXCEPT !.pc = "entries", !.dolphinPath = FindDolphinPath(ex.files, 1)]
    /\ UNCHANGED <<run, sel, vcr, rel, watch, mig, chain>>

\* the pattern the second loop matches the names of the entries against
ExPattern(root) == ToSlash(Join(root, <<"*">>))

\* the path below target that entry name is written to, "" when it is skipped
ExTargetRelPath(pass, root, name) ==
    IF ~MatchStar(ExPattern(root), name) THEN Empty
    ELSE GenTargetFile(pass, Rel(root, name))

\* the second loop, one entry that does not match or that the selector
\* leaves out: continue
ExSkipEntry ==
    /\ ex.pc = "entries" /\ ex.idx <= Len(ex.files)
    /\ ExTargetRelPath(ex.pass, ex.dolphinPath, ex.files[ex.idx]) = Empty
    /\ ex' = [ex EXCEPT !.idx = @ + 1]
    /\ UNCHANGED <<run, sel, vcr, rel, watch, mig, chain>>

\* the second loop, one entry that is written at filepath.Join(target, rel)
ExWriteEntry ==
    /\ ex.pc = "entries" /\ ex.idx <= Len(ex.files)
    /\ LET rp == ExTargetRelPath(ex.pass, ex.dolphinPath, ex.files[ex.idx])
       IN  /\ rp # Empty
           /\ ex' = [ex EXCEPT !.idx = @ + 1,
                               !.written = @ \cup {[entry |-> ex.idx, path |-> TargetFile(rp)]}]
    /\ UNCHANGED <<run, sel, vcr, rel, watch, mig, chain>>

\* return nil
ExReturn ==
    /\ ex.pc = "entries" /\ ex.idx > Len(ex.files)
    /\ ex' = [ex EXCEPT !.pc = "returned"]
    /\ UNCHANGED <<run, sel, vcr, rel, watch, mig, chain>>

ExtNext == ExFindDolphin \/ ExSkipEntry \/ ExWriteEntry \/ ExReturn

ExtSpec == ExtInit /\ [][ExtNext]_vars

(***************************************************************************)
(* applyMeleeOnlyChanges on its own: prevVersion and the content of        *)
(* Sys/GameSettings are drawn, and one call is followed removal by removal.*)
(***************************************************************************)
\* the largest number of entries of Sys/GameSettings
MaxSettingsFiles == 4

\* the entries the directory can hold, by their place in the order of names
SettingsFiles == 1..MaxSettingsFiles

\* the previous versions a call is made with
MigPrevVersions == PrevVersions \cup { <<"2.3.0", "-beta">> }

\* ioutil.ReadDir returns the entries sorted by name
RECURSIVE SortedEntries(_)
SortedEntries(S) ==
    IF S = {} THEN << >>
    ELSE LET m == CHOOSE x \in S : \A y \in S : x <= y
         IN  <<m>> \o SortedEntries(S \ {m})

MigInit ==
    /\ NoRun
    /\ vcr = VcrIdle /\ rel = RelIdle /\ watch = WatchIdle /\ ex = ExIdle
    /\ chain = ChainIdle
    /\ \E prev \in MigPrevVersions, present \in BOOLEAN, files \in SUBSET SettingsFiles :
          /\ ~present => files = {}
          /\ mig = [pc |-> "call", prev |-> prev, present |-> present,
                    before |-> files, files |-> files, dir |-> << >>]

\* "if prevVersion != "" { return }"
MigKeep ==
    /\ mig.pc = "call" /\ mig.prev # Empty
    /\ mig' = [mig EXCEPT !.pc = "returned"]
    /\ UNCHANGED <<run, sel, vcr, rel, watch, ex, chain>>

\* a ReadDir whose error is not dropped
MigReadDirChecked ==
    /\ mig.pc = "call" /\ mig.prev = Empty
    /\ \E ok \in BOOLEAN :
          mig' = IF ok /\ mig.present
                 THEN [mig EXCEPT !.pc = "remove", !.dir = SortedEntries(mig.files)]
                 ELSE [mig EXCEPT !.pc = "panicked"]
    /\ UNCHANGED <<run, sel, vcr, rel, watch, ex, chain>>

\* "dir, err := ioutil.ReadDir(gameSettingsPath)": the error is not looked
\* at, and when the directory is missing or cannot be read dir is empty
MigReadDir ==
    /\ mig.pc = "call" /\ mig.prev = Empty
    /\ \E ok \in BOOLEAN :
          mig' = [mig EXCEPT !.pc = "remove",
                             !.dir = IF ok /\ mig.present THEN SortedEntries(mig.files) ELSE << >>]
    /\ UNCHANGED <<run, sel, vcr, rel, watch, ex, chain>>

\* one turn of the loop: os.RemoveAll of the next entry, a failure panics
MigRemoveAll ==
    /\ mig.pc = "remove" /\ mig.dir # << >>
    /\ \E ok \in BOOLEAN :
          mig' = IF ok
                 THEN [mig EXCEPT !.files = @ \ {Head(mig.dir)}, !.dir = Tail(@)]
                 ELSE [mig EXCEPT !.pc = "panicked"]
    /\ UNCHANGED <<run, sel, vcr, rel, watch, ex, chain>>

\* the loop is over
MigReturn ==
    /\ mig.pc = "remove" /\ mig.dir = << >>
    /\ mig' = [mig EXCEPT !.pc = "returned"]
    /\ UNCHANGED <<run, sel, vcr, rel, watch, ex, chain>>

MigNext == MigKeep \/ MigReadDir \/ MigRemoveAll \/ MigReturn

MigSpec == MigInit /\ [][MigNext]_vars

(***************************************************************************)
(* The releases of a self-update chain: the parent asks the service for    *)
(* the latest release, extracts the updater of that release and starts the *)
(* child; the child asks the service again and installs what it is         *)
(* answered.  The service publishes releases while the chain runs.  A      *)
(* release descriptor is the index of the release in the list of the       *)
(* service; 0 stands for the previous install.                             *)
(***************************************************************************)
\* number of releases the service publishes while a chain runs
MaxPublications == 1

ChainPrevVersions == { Empty, <<"2", ".", "3">>, <<"2", ".", "3">> \o BetaMarker }

ChainInit ==
    /\ NoRun
    /\ vcr = VcrIdle /\ rel = RelIdle /\ watch = WatchIdle
    /\ ex = ExIdle /\ mig = MigIdle
    /\ \E prevVersion \in ChainPrevVersions, db \in ReleaseLists :
          chain = [pc |-> "parentQuery", prevVersion |-> prevVersion, childVersion |-> Empty,
                   db |-> db, published |-> 0,
                   parent |-> 0, child |-> 0, updater |-> 0, app |-> 0]

\* the service publishes a release: it is the newest by releasedAt
ChainPublish ==
    /\ chain.pc \notin {"done", "failed"}
    /\ chain.published < MaxPublications
    /\ \E t \in ReleaseTypes :
          chain' = [chain EXCEPT !.db = Append(@, t), !.published = @ + 1]
    /\ UNCHANGED <<run, sel, vcr, rel, watch, ex, mig>>

\* the parent: isBeta := strings.Contains(prevVersion, "-beta") and
\* latest := getLatestVersion(isBeta), which panics on an empty response
ChainParentQuery ==
    /\ chain.pc = "parentQuery"
    /\ \E ok \in BOOLEAN :
          LET resp == IF ok THEN dolphinVersions(chain.db, types(Contains(chain.prevVersion, BetaMarker)))
                      ELSE Empty
          IN  chain' = IF resp = Empty THEN [chain EXCEPT !.pc = "failed"]
                       ELSE [chain EXCEPT !.pc = "parentExtract", !.parent = resp[1]]
    /\ UNCHANGED <<run, sel, vcr, rel, watch, ex, mig>>

\* the parent: downloadFile(zipFilePath, latest.URL), the rename and
\* extractFiles with updaterUpdateGen; the updater binary is that of latest
ChainParentExtract ==
    /\ chain.pc = "parentExtract"
    /\ \E ok \in BOOLEAN :
          chain' = IF ok THEN [chain EXCEPT !.pc = "spawn", !.updater = chain.parent]
                   ELSE [chain EXCEPT !.pc = "failed"]
    /\ UNCHANGED <<run, sel, vcr, rel, watch, ex, mig>>

\* the parent: cmd.Start of the new updater with "-version" prevVersion; the
\* release the parent was answered is not among the arguments
ChainSpawn ==
    /\ chain.pc = "spawn"
    /\ \E ok \in BOOLEAN :
          chain' = IF ok
                   THEN [chain EXCEPT !.pc = "childQuery",
                                      !.childVersion =
                                          ChildArgs([isFull |-> FALSE, skip |-> FALSE,
                                                     launch |-> TRUE, iso |-> Empty,
                                                     prev |-> chain.prevVersion]).prev]
                   ELSE [chain EXCEPT !.pc = "failed"]
    /\ UNCHANGED <<run, sel, vcr, rel, watch, ex, mig>>

\* the child: its own getLatestVersion(isBeta), after waitForDolphinClose
ChainChildQuery ==
    /\ chain.pc = "childQuery"
    /\ \E ok \in BOOLEAN :
          LET resp == IF ok THEN dolphinVersions(chain.db, types(Contains(chain.childVersion, BetaMarker)))
                      ELSE Empty
          IN  chain' = IF resp = Empty THEN [chain EXCEPT !.pc = "failed"]
                       ELSE [chain EXCEPT !.pc = "childInstall", !.child = resp[1]]
    /\ UNCHANGED <<run, sel, vcr, rel, watch, ex, mig>>

\* the child: downloadFile of its latest.URL and the install path; the
\* application files are those of the release the child was answered
ChainChildInstall ==
    /\ chain.pc = "childInstall"
    /\ \E ok \in BOOLEAN :
          chain' = IF ok THEN [chain EXCEPT !.pc = "done", !.app = chain.child]
                   ELSE [chain EXCEPT !.pc = "failed"]
    /\ UNCHANGED <<run, sel, vcr, rel, watch, ex, mig>>

ChainNext ==
    \/ ChainPublish
    \/ ChainParentQuery
    \/ ChainParentExtract
    \/ ChainSpawn
    \/ ChainChildQuery
    \/ ChainChildInstall

ChainSpec == ChainInit /\ [][ChainNext]_vars

(***************************************************************************)
(* The two paths of a run.                                                 *)
(***************************************************************************)
SelfSteps == {"rename", "extractUpdater", "spawn"}
InstallSteps == {"removeOld", "migrate", "deletePrev", "dataPass", "exePass", "vcr", "launch"}

\* process p is at, or has executed, a step of the path
OnSelf(p) == pc[p] \in SelfSteps \/ steps[p] \cap SelfSteps # {}
OnInstall(p) == pc[p] \in InstallSteps \/ steps[p] \cap InstallSteps # {}

AppExeFiles == {<<n>> : n \in AppExeNames}

(***************************************************************************)
(* Properties.                                                             *)
(***************************************************************************)

\* C1: an application executable is written only inside the retry loop of
\* the executable-only pass of a process whose data pass was begun before,
\* and a process enters the executable-only pass only from the end of the
\* second loop of its data pass.
C1_ExeWrittenOnlyByFinalPass ==
    [][ /\ \A f \in AppExeFiles :
              (disk'[f] # disk[f] /\ disk'[f].present) =>
                 \E p \in Procs : /\ pc[p] = "exePass"
                                  /\ ext[p].phase = "retry"
                                  /\ "dataPass" \in steps[p]
        /\ \A p \in Procs :
              (pc'[p] = "exePass" /\ pc[p] # "exePass") =>
                 /\ pc[p] = "dataPass"
                 /\ ext[p].phase = "scan"
                 /\ ext[p].idx > Len(Archive) ]_vars

\* the executable of the new release is in place after the final pass
C1_Witness ==
    \E p \in Procs : pc[p] = "vcr" /\ Complete(disk[<<SlippiDolphinExe>>], LatestRelease)

\* C2: a run that has passed the branch is on exactly one of the two paths.
C2_ExactlyOnePath ==
    \A p \in Procs : "branch" \in steps[p] => (OnSelf(p) # OnInstall(p))

\* a chain whose parent took the self-update path and whose child has
\* completed the install path
C2_Witness ==
    /\ "branch" \in steps[1] /\ OnSelf(1)
    /\ "branch" \in steps[2] /\ OnInstall(2) /\ pc[2] = "done"

\* the order of the self-update path: the extraction follows a rename that
\* succeeded, the spawn follows the extraction of the updater, and a child
\* exists only once it was spawned
SelfOrder(p) ==
    /\ "extractUpdater" \in steps[p] =>
          "rename" \in steps[p] /\ image[p] = oldSlippiToolsPath
    /\ "spawn" \in steps[p] =>
          "extractUpdater" \in steps[p] /\ slippiToolsPath \in finished[p]
    /\ (p = 1 /\ pc[2] # "idle") => "spawn" \in steps[p]

\* C3 as stated: every run with skipSelfUpdate=false, whatever isFull, takes
\* the self-update path and executes no step of the install path.
C3_SelfUpdateWheneverNotSkipped ==
    \A p \in Procs :
       (pc[p] # "idle" /\ ~args[p].skip /\ "branch" \in steps[p]) =>
          OnSelf(p) /\ ~OnInstall(p) /\ SelfOrder(p)

\* C3 amended: every run with skipSelfUpdate=false and isFull=false takes the
\* self-update path (rename, extraction of the updater, spawn, in this order)
\* and executes no step of the install path.
C3_SelfUpdateWhenNeitherFullNorSkipped ==
    \A p \in Procs :
       (pc[p] # "idle" /\ ~args[p].skip /\ ~args[p].isFull /\ "branch" \in steps[p]) =>
          OnSelf(p) /\ ~OnInstall(p) /\ SelfOrder(p)

\* the hop has spawned its child
C3_Witness ==
    /\ ~args[1].skip /\ ~args[1].isFull
    /\ "spawn" \in steps[1] /\ pc[2] # "idle"

\* C4: a child exists only after the rename, with the complete new updater at
\* the updater's file name.
C4_ChildStartedFromCompleteUpdater ==
    pc[2] # "idle" =>
       /\ "rename" \in steps[1]
       /\ Complete(disk[slippiToolsPath], LatestRelease)

\* C5: the staged old updater is removed only by a process that runs from the
\* updater's file name and whose Process Watcher has returned, and never while
\* a live process was started from the staged file.
C5_StagedRemovedOnlyWhenSafe ==
    [][ (disk[oldSlippiToolsPath].present /\ ~disk'[oldSlippiToolsPath].present) =>
           /\ \E p \in Procs : /\ pc[p] = "removeOld"
                               /\ image[p] = slippiToolsPath
                               /\ "wait" \in steps[p]
           /\ \A q \in Procs : Alive(q) => image[q] # oldSlippiToolsPath ]_vars

\* the child of a hop has removed the file its parent staged
C5_Witness ==
    /\ "spawn" \in steps[1]
    /\ "removeOld" \in steps[2]
    /\ ~disk[oldSlippiToolsPath].present

\* C6: when the retry window of a file elapses without a success the run is
\* Failed and the file is not reported as finished.
C6_ElapsedWindowAborts ==
    \A p \in Procs :
       timedOut[p] # {} =>
          /\ pc[p] = "failed" /\ result[p] = "err"
          /\ timedOut[p] \cap finished[p] = {}

\* C7: a file that an attempt within the window wrote successfully holds the
\* complete bytes of its archive entry.
C7_RetriedWriteIsComplete ==
    \A p \in Procs : \A f \in finished[p] \ timedOut[p] :
       Complete(disk[f], LatestRelease)

\* C8: while a process is on the install path, a complete application
\* executable of a release is on disk only together with the complete
\* bundled data of that release.
C8_NoExeWithStaleOrMissingData ==
    \A p \in Procs :
       (OnInstall(p) /\ "wait" \in steps[p]) =>
          \A f \in AppExeFiles : \A r \in {PrevRelease, LatestRelease} :
             Complete(disk[f], r) => \A d \in DataFiles : Complete(disk[d], r)

\* C9: a run with skipSelfUpdate=true that has passed the branch is on the
\* install path, the staged old updater is gone once the run has executed its
\* removal, and no step taken while the run is alive changes the updater binary.
C9_SkipRunRemovesStagedKeepsUpdater ==
    [][ \A p \in Procs :
          (Alive(p) /\ args[p].skip) =>
             /\ "branch" \in steps[p] => OnInstall(p)
             /\ "removeOld" \in steps'[p] => ~disk'[oldSlippiToolsPath].present
             /\ disk'[slippiToolsPath] = disk[slippiToolsPath] ]_vars

\* C10: fullUpdateGen returns "" for the two application executables and the
\* updater binary, and returns every other path unchanged.
C10_FullSelectorAdmits ==
    selKind = "full" =>
       IF selPath \in AppExeFiles \cup {slippiToolsPath}
       THEN selOut = Empty
       ELSE selOut = selPath /\ selOut # Empty

\* a nested data path went through unchanged
C10_Witness ==
    /\ selKind = "full"
    /\ selPath = <<"Sys", BackSlash, "a.bin">>
    /\ selOut = selPath

\* the game-data directory, as the slash path that names what lies under it
GameFilesDir == <<"Sys", Slash, "GameFiles", Slash, "GALE01", Slash>>

\* C11: the partial selector returns a path unchanged when it is one of the
\* named files or lies under Sys/GameFiles/GALE01/, with either separator,
\* and returns "" for every other path; the application executables and the
\* updater binary are among the excluded

C11_PartialSelectorAdmits ==
    selKind = "partial" =>
        LET slashPath == ToSlash(selPath)
            admitted == slashPath \in PartialNamedFiles \/ IsPrefix(GameFilesDir, slashPath)
        IN  /\ selOut = (IF admitted THEN selPath ELSE Empty)
            /\ Components(selPath) \in {<<DolphinExe>>, <<SlippiDolphinExe>>, <<SlippiToolsExe>>}
                  => selOut = Empty

C11_Witness ==
    /\ selKind = "partial"
    /\ selPath = <<"Sys", BackSlash, "GameFiles", BackSlash, "GALE01", BackSlash, "a.bin">>
    /\ selOut = selPath

\* C12: in one call of installVcr that has read both versions the installer
\* is never run when the four values of the registry equal the four
\* components of the installer's file version, and it is run exactly once
\* when they differ or the registry cannot be read; it is never run twice
C12_InstallerRunsIffVersionsDiffer ==
    LET same == vcr.unreadable = {} /\ vcr.reg = vcr.bundled
    IN  vcr.pc # "idle" =>
          /\ vcr.runs <= 1
          /\ same => vcr.runs = 0
          /\ (vcr.pc \in {"returned", "panicked"} /\ vcr.installerVersion # Empty /\ ~same)
                => vcr.runs = 1

C12_Witness ==
    /\ vcr.pc = "returned"
    /\ vcr.unreadable = {}
    /\ vcr.reg # vcr.bundled
    /\ vcr.runs = 1

C14_ChannelsFollowBetaMarker ==
    rel.pc \in {"returned", "panicked"} =>
        LET channels == IF Contains(rel.prevVersion, BetaMarker) THEN {Stable, Beta} ELSE {Stable}
        IN  /\ {rel.types[k] : k \in DOMAIN rel.types} = channels
            /\ rel.pc = "returned" =>
                  /\ rel.latest \in DOMAIN rel.db
                  /\ rel.db[rel.latest] \in channels
                  /\ \A j \in DOMAIN rel.db : j > rel.latest => rel.db[j] \notin channels

C14_Witness ==
    /\ rel.pc = "returned"
    /\ rel.prevVersion = <<"2", ".", "3", "-", "b", "e", "t", "a">>
    /\ rel.db = <<Stable, Beta>>
    /\ rel.latest = 2

\* C15: waitForDolphinClose returns only in a state in which no process of
\* the name Dolphin.exe and none of the name Slippi Dolphin.exe runs
C15_ReturnsOnlyWhenNoneRuns ==
    [][(watch.pc # "returned" /\ watch'.pc = "returned")
          => \A n \in AppExeNames : watch'.procs[n] = 0]_vars

\* C16: whenever a step of a process that is on the install path changes a
\* file of the install directory, waitForDolphinClose has returned in that
\* process before; this holds for the full update and for the child of the
\* self-update hop
C16_WatcherReturnedBeforeInstallChangesFiles ==
    [][ \A p \in Procs :
           (/\ disk' # disk
            /\ pc'[p] # pc[p] \/ ext'[p] # ext[p]
            /\ pc[p] \in InstallSteps)
              => "wait" \in steps[p] ]_vars

\* the child of a hop has waited and has written the data of the release
C16_Witness ==
    /\ "spawn" \in steps[1]
    /\ "wait" \in steps[2]
    /\ pc[2] = "exePass"
    /\ Complete(disk[<<"SDL2.dll">>], LatestRelease)

\* the files of the entries below the root of the archive that a selector
\* admits
AdmittedFiles(kind) ==
    {Components(Rel(dolphinPath, Archive[i])) :
        i \in {j \in DOMAIN Archive :
                  /\ MatchStar(dolphinPathPattern, Archive[j])
                  /\ (IF kind = "full" THEN fullUpdateGen(Rel(dolphinPath, Archive[j]))
                      ELSE partialUpdateGen(Rel(dolphinPath, Archive[j]))) # Empty}}

C18_ExecutableFailureAbortsProcess ==
    [][ \A p \in Procs :
           (pc[p] = "start" /\ pc'[p] \notin {"start", "wait1", "fetch"})
              => pc'[p] = "exited" /\ result'[p] = "none" ]_vars

\* C18: when os.Executable fails the panic is recovered: execAppUpdate returns
\* the error without having executed a step, the process is not ended, and
\* a run that has failed executes no further step
C18_ExecutableFailureIsReturned ==
    [][ \A p \in Procs :
           /\ (pc[p] = "start" /\ pc'[p] \notin {"start", "wait1", "fetch"})
                 => /\ pc'[p] = "failed" /\ result'[p] = "err"
                    /\ steps'[p] = {}
                    /\ disk' = disk
           /\ pc[p] = "failed"
                 => /\ pc'[p] = "failed" /\ result'[p] = "err"
                    /\ steps'[p] = steps[p] /\ ext'[p] = ext[p] ]_vars

C18_Witness ==
    /\ pc[1] = "failed"
    /\ result[1] = "err"
    /\ steps[1] = {}
    /\ pc[2] = "idle"

C20_LaunchIffAskedAfterInstall ==
    [][ /\ \A p \in Procs :
              /\ ("launch" \in steps[p])' =>
                    /\ args'[p].launch
                    /\ {"dataPass", "exePass", "vcr"} \subseteq steps'[p]
                    /\ pc'[p] \in {"done", "exited"} /\ result'[p] = "nil"
              /\ (OnInstall(p) /\ pc[p] # "done" /\ pc'[p] = "done") =>
                    /\ pc[p] = "launch"
                    /\ ("launch" \in steps[p])' <=> args[p].launch
        /\ ~(running' \subseteq running) =>
              \E p \in Procs : /\ pc[p] = "launch" /\ args[p].launch
                                /\ pc'[p] = "done" ]_vars

\* a full update has started the application and has returned while it runs
C20_Witness ==
    \E p \in Procs :
        /\ args[p].isFull /\ args[p].launch
        /\ "launch" \in steps[p]
        /\ pc[p] = "done" /\ result[p] = "nil"
        /\ SlippiDolphinExe \in running

(***************************************************************************)
(* One extraction pass and the entries below the root of the archive.      *)
(***************************************************************************)
\* the entries of an archive that are application executables
ExeEntries(files) == {i \in DOMAIN files : Base(files[i]) \in AppExeNames}

FirstExeEntry(files) == CHOOSE i \in ExeEntries(files) : \A j \in ExeEntries(files) : i <= j

\* the directories that lead to the first application executable
RootOf(files) ==
    LET c == Components(files[FirstExeEntry(files)])
    IN  SubSeq(c, 1, Len(c) - 1)

\* the entry lies below the root
UnderRoot(files, i) ==
    LET c == Components(files[i])
    IN  Len(c) > Len(RootOf(files)) /\ IsPrefix(RootOf(files), c)

\* the path of an entry below the root, relative to the root
BelowRoot(files, i) ==
    LET c == Components(files[i])
    IN  JoinWith(SubSeq(c, Len(RootOf(files)) + 1, Len(c)), BackSlash)

\* the entries a pass is to write, each with its place below target
Selected(files, pass) ==
    {[entry |-> i, path |-> TargetFile(GenTargetFile(pass, BelowRoot(files, i)))] :
        i \in {j \in DOMAIN files :
                  UnderRoot(files, j) /\ GenTargetFile(pass, BelowRoot(files, j)) # Empty}}

\* C21: when a pass over an archive that holds an application executable has
\* returned, the entries it has written are exactly the entries below the
\* root of the archive for which the selector of the pass returns an output
\* path, each at target joined with that output path
C21_PassWritesExactlySelectedUnderRoot ==
    (ex.pc = "returned" /\ ExeEntries(ex.files) # {})
        => ex.written = Selected(ex.files, ex.pass)

(***************************************************************************)
(* The runtime installer and the order of versions.                        *)
(***************************************************************************)
\* C22 as stated: the installer is run only when the installed version is
\* lower than the version of the bundled installer, a value that cannot be
\* read counting as the lowest; an installed version at or above the bundled
\* one never runs it
C22_InstallerRunsOnlyWhenLower ==
    vcr.pc # "idle" =>
        (vcr.runs > 0 => VerLess(InstalledTuple(vcr.reg, vcr.unreadable), vcr.bundled))

\* C22: a call of installVcr that has read both versions and has ended has
\* run the installer once when the installed version is lower than the
\* bundled one and once as well when it is higher; it has not run it when
\* the two are the same; a higher installed version for which the installer
\* reports that a newer version is installed ends the call without an error
C22_InstallerRunsWhenLowerOrHigher ==
    (vcr.pc \in {"returned", "panicked"} /\ vcr.installerVersion # Empty /\ vcr.unreadable = {})
        => /\ VerLess(vcr.reg, vcr.bundled) => vcr.runs = 1
           /\ VerLess(vcr.bundled, vcr.reg) => vcr.runs = 1
           /\ (~VerLess(vcr.reg, vcr.bundled) /\ ~VerLess(vcr.bundled, vcr.reg)) => vcr.runs = 0
           /\ (vcr.runs = 1 /\ vcr.exit = ExitNewerInstalled) => vcr.pc = "returned"

C22_Witness ==
    /\ vcr.pc = "returned"
    /\ vcr.unreadable = {}
    /\ VerLess(vcr.bundled, vcr.reg)
    /\ vcr.runs = 1
    /\ vcr.exit = ExitNewerInstalled

(***************************************************************************)
(* The exit status of the runtime installer.                               *)
(***************************************************************************)
\* C23: when the installer has been run, installVcr returns after the exit
\* statuses 0, 1638 and 3010, so that the run goes on, and it panics after
\* every other exit status, so that the run fails
C23_ExitStatusDecidesTheOutcome ==
    (vcr.pc \in {"returned", "panicked"} /\ vcr.runs = 1)
        => /\ vcr.exit \in {0, 1638, 3010} => vcr.pc = "returned"
           /\ vcr.exit \notin {0, 1638, 3010} => vcr.pc = "panicked"

C23_Witness ==
    /\ vcr.pc = "panicked"
    /\ vcr.runs = 1
    /\ vcr.exit = ExitFailure

(***************************************************************************)
(* The parent of the self-update hop after the start of the new updater.   *)
(***************************************************************************)
\* C24: the step that starts the new updater, when the start succeeds, is
\* the last step of the parent: with it execAppUpdate returns nil while the
\* child is only about to begin, and it changes no file; whatever the parent
\* does after that step changes no file of the install directory and adds
\* nothing to what the parent has done
C24_ParentReturnsAfterSpawn ==
    [][\A p \in Procs :
          /\ (pc[p] = "spawn" /\ pc'[p] # pc[p] /\ pc'[p] # "failed")
                => /\ pc'[p] = "done" /\ result'[p] = "nil"
                   /\ pc'[2] \in {"start", "exited"}
                   /\ disk' = disk
          /\ ("spawn" \in steps[p] /\ pc[p] # "failed" /\ pc'[p] # pc[p])
                => /\ pc'[p] = "exited"
                   /\ disk' = disk
                   /\ steps'[p] = steps[p] /\ finished'[p] = finished[p]
                   /\ result'[p] = "nil"]_vars

C24_Witness ==
    /\ "spawn" \in steps[1]
    /\ pc[1] = "exited" /\ result[1] = "nil"
    /\ pc[2] = "dataPass"
    /\ disk[<<SlippiDolphinExe>>] = Absent

(***************************************************************************)
(* The selectors of the passes admit disjoint sets of paths.               *)
(***************************************************************************)
\* the selectors of the three passes that admit a path
AdmittedBy(path) ==
    {k \in {"full", "updater", "exe"} :
        CASE k = "full" -> fullUpdateGen(path) # Empty
          [] k = "updater" -> updaterUpdateGen(path) # Empty
          [] k = "exe" -> exeUpdateGen(path) # Empty}

\* C25: the updater selector returns a path if and only if it is the path of
\* the updater binary, the executable selector if and only if it is the
\* path of an application executable, each returning the path as it is; and
\* a path that the full, the updater or the executable selector has
\* returned is admitted by no other of the three
C25_PassSelectorsAreDisjoint ==
    /\ selKind = "updater" =>
          /\ (selOut # Empty <=> selPath = slippiToolsPath)
          /\ selOut \in {Empty, selPath}
    /\ selKind = "exe" =>
          /\ (selOut # Empty <=> selPath \in AppExeFiles)
          /\ selOut \in {Empty, selPath}
    /\ (selKind \in {"full", "updater", "exe"} /\ selOut # Empty)
          => AdmittedBy(selPath) = {selKind}

C25_Witness ==
    /\ selKind = "exe"
    /\ selPath = <<SlippiDolphinExe>>
    /\ selOut = selPath
    /\ AdmittedBy(selPath) = {"exe"}

(***************************************************************************)
(* The migration step.                                                     *)
(***************************************************************************)
\* C26: a call of applyMeleeOnlyChanges never adds a file and removes files
\* of Sys/GameSettings only when prevVersion is empty; with a prevVersion
\* that is not empty it returns with every file as it was; and when the
\* directory is empty or missing it returns, without a panic, and nothing
\* has changed
C26_MigrationOnlyForUnknownVersion ==
    mig.pc # "idle" =>
        /\ mig.files \subseteq mig.before
        /\ mig.files # mig.before => mig.prev = Empty
        /\ mig.prev # Empty => mig.pc \in {"call", "returned"}
        /\ mig.before = {} => (mig.pc # "panicked" /\ mig.files = {})

C26_Witness ==
    /\ mig.pc = "returned"
    /\ mig.prev = Empty
    /\ ~mig.present
    /\ mig.files = {}

(***************************************************************************)
(* The outcomes of the watcher.                                            *)
(***************************************************************************)
NoneRuns == \A n \in AppExeNames : watch.procs[n] = 0

\* C27: a call of waitForDolphinClose returns if from some time on no
\* recognized process runs, and in every other case, that is when time and
\* again a recognized process runs, it never returns; it has no other end
C27_ReturnsIfAndOnlyIfAllExit ==
    /\ (<>[]NoneRuns) => <>(watch.pc = "returned")
    /\ ([]<>~NoneRuns) => [](watch.pc # "returned")
    /\ [](watch.pc \in {"pollDolphin", "pollSlippiDolphin", "returned"})

(***************************************************************************)
(* Termination of a run.                                                   *)
(***************************************************************************)
\* the steps of execAppUpdate after waitForDolphinClose
AfterWaitSteps ==
    {"fetch", "tmpdir", "download", "branch"} \cup SelfSteps \cup InstallSteps

\* C28: every run that has got past the wait for the application comes to
\* its end, execAppUpdate returning nil or the error: from some time on no
\* process is at a step between the wait and the return.  On the way no
\* step of execAppUpdate is taken a second time, and within a retry loop
\* the time that has elapsed grows with every failed attempt, the loop
\* being left at the latest when the window has elapsed
C28_RunReachesDoneOrFailed ==
    /\ <>[](\A p \in Procs : pc[p] \notin AfterWaitSteps)
    /\ [][\A p \in Procs :
            /\ (pc'[p] # pc[p] /\ pc[p] # "idle")
                  => (pc'[p] \notin steps[p] /\ pc'[p] \notin {"idle", "start"})
            /\ (ext[p].phase = "retry" /\ ext'[p] # ext[p])
                  => \/ ext'[p].phase # "retry"
                     \/ ext'[p].elapsed > ext[p].elapsed /\ ext[p].elapsed < RetryWindow]_vars

C28_Witness ==
    /\ pc[2] = "done"
    /\ timedOut[2] # {}
    /\ finished[2] # timedOut[2]

(***************************************************************************)
(* A run that fails before the branch.                                     *)
(***************************************************************************)
\* the places of execAppUpdate up to the download
BeforeBranch == {"start", "wait1", "wait2", "fetch", "tmpdir", "download"}

\* C29: no step that a process takes before the branch of execAppUpdate (the
\* wait, the release query, the temporary directory, the download) changes
\* a file of the install directory, and a run that fails at one of these
\* steps has not taken any step of the two paths and has written, timed out
\* on or logged no file
C29_FailureBeforeBranchChangesNothing ==
    [][\A p \in Procs :
          /\ (pc[p] \in BeforeBranch /\ pc'[p] # pc[p]) => disk' = disk
          /\ (pc[p] \in BeforeBranch /\ pc'[p] = "failed")
                => /\ steps'[p] \cap (SelfSteps \cup InstallSteps \cup {"branch"}) = {}
                   /\ finished'[p] = {} /\ timedOut'[p] = {}
                   /\ ext'[p] = NoExt]_vars

C29_Witness ==
    /\ pc[2] = "failed"
    /\ "download" \in steps[2]
    /\ "branch" \notin steps[2]
    /\ disk[oldSlippiToolsPath].present
    /\ disk[<<SlippiDolphinExe>>].present

(***************************************************************************)
(* The files a run on the self-update path touches.                        *)
(***************************************************************************)
\* the updater binary and the name it is staged under
UpdaterFiles == {slippiToolsPath, oldSlippiToolsPath}

\* C30: a step of a process that was invoked neither for a full update nor
\* with the updater already replaced changes no file of the install
\* directory other than the updater binary and the staged updater; such a
\* process never polls for the application and takes no step of the
\* install path, so the application executable, the data and the settings
\* stay as they were
C30_SelfUpdateTouchesUpdaterOnly ==
    [][\A p \in Procs :
          (/\ pc[p] # "idle"
           /\ TakesSelfUpdate(args[p])
           /\ pc'[p] # pc[p] \/ ext'[p] # ext[p])
             => /\ \A f \in DiskFiles \ UpdaterFiles : disk'[f] = disk[f]
                /\ pc'[p] \notin {"wait1", "wait2"} \cup InstallSteps \cup {"dataPass", "exePass"}
                /\ "wait" \notin steps'[p]
                /\ finished'[p] \subseteq UpdaterFiles]_vars

C30_Witness ==
    /\ pc[1] = "done" /\ "spawn" \in steps[1]
    /\ TakesSelfUpdate(args[1])
    /\ "wait" \notin steps[1]
    /\ running # {}
    /\ Complete(disk[slippiToolsPath], LatestRelease)
    /\ Complete(disk[oldSlippiToolsPath], PrevRelease)
    /\ \A f \in DataFiles : Complete(disk[f], PrevRelease)
    /\ pc[2] = "start"

(***************************************************************************)
(* A failed start of the application.                                      *)
(***************************************************************************)
\* C31: when a run on the install path with shouldLaunch true leaves the
\* launch step and the application does not run (cmd.Start failed), the run
\* ends in "failed" and returns the error to its caller
C31_FailedLaunchIsReturned ==
    [][\A p \in Procs :
          (/\ pc[p] = "launch" /\ pc'[p] # "launch"
           /\ args[p].launch
           /\ SlippiDolphinExe \notin running')
             => (pc'[p] = "failed" /\ result'[p] = "err")]_vars

(***************************************************************************)
(* The updater binary at the end of a self-update run.                     *)
(***************************************************************************)
\* C32: whenever a run on the self-update path has ended, done or failed, a
\* file is there under the name dolphin-slippi-tools.exe, so that the same
\* command can be run again
C32_UpdaterPresentAtEnd ==
    \A p \in Procs :
        (TakesSelfUpdate(args[p]) /\ pc[p] \in {"done", "failed"})
            => disk[slippiToolsPath].present

(***************************************************************************)
(* The releases of a self-update chain.                                    *)
(***************************************************************************)
\* C33: when a self-update chain has ended with the install of the child,
\* the updater binary the parent extracted and the application files the
\* child installed are of the same release, whenever the service published
\* a release while the chain ran
C33_ChainInstallsOneRelease ==
    chain.pc = "done" => chain.updater = chain.app

(***************************************************************************)
(* The install directory after an install.                                 *)
(***************************************************************************)
\* the application executables under both names and the files below Sys
InstallLocations ==
    {f \in DOMAIN disk : f = <<DolphinExe>> \/ f = <<SlippiDolphinExe>> \/ IsPrefix(SysDir, f)}

\* the files the data pass and the executable pass write
InstallTargets ==
    {TargetFile(TargetRelPath(pass, Archive[i])) :
        pass \in {"dataPass", "exePass"}, i \in DOMAIN Archive} \ {Empty}

\* the bytes of a file are bytes of an entry of the downloaded archive
FromArchive(f) ==
    \E a \in 0..EntryLen, b \in 0..EntryLen : f.bytes = SubSeq(EntryBytes, a + 1, b)

\* C34: after a run on the install path has returned nil, a file that is
\* there under the name of an application executable (legacy or current) or
\* below Sys is a file this run wrote from the downloaded archive, the files
\* the run wrote there are those the archive has for these places, every
\* one of them whose retry window did not elapse is there, and no file or
\* byte of the previous install is left there
C34_InstallLeavesNothingOfPrevious ==
    \A p \in Procs :
        (result[p] = "nil" /\ TakesInstall(args[p]))
            => /\ InstallLocations \cap finished[p] = InstallLocations \cap InstallTargets
               /\ \A f \in InstallLocations :
                     /\ disk[f].present => (f \in finished[p] /\ FromArchive(disk[f]))
                     /\ (f \in finished[p] /\ f \notin timedOut[p]) => disk[f].present

C34_Witness ==
    /\ TakesInstall(args[1]) /\ args[1].prev # Empty
    /\ result[1] = "nil" /\ "deletePrev" \in steps[1]
    /\ ~disk[PrevOnlyFile].present
    /\ ~disk[<<DolphinExe>>].present
    /\ Complete(disk[<<SlippiDolphinExe>>], LatestRelease)
    /\ \A f \in InstallLocations \cap InstallTargets : Complete(disk[f], LatestRelease)

====
